---- MODULE Spec2Model ----
(***************************************************************************)
(* A model of drake's MultibodyTree (multibody_tree.cc): construction and  *)
(* finalization of the tree, the level partition, and the tree-wide sweep  *)
(* drivers (position, velocity, acceleration, inverse dynamics, mass       *)
(* matrix by inverse-dynamics probing).                                    *)
(*                                                                         *)
(* Spatial quantities are modelled by integers: the mechanism is the       *)
(* one-dimensional special case in which every pose, velocity,             *)
(* acceleration and force is a scalar along one axis.  Arrays indexed by   *)
(* a C++ index are functions over 0 .. n-1; ordered containers that the    *)
(* code iterates are sequences.                                            *)
(***************************************************************************)
EXTENDS Integers, Sequences, FiniteSets, TLC

\* Largest number of bodies of a tree, the world body included.
MaxBodies == 3

VARIABLES
    num_bodies_,        \* owned_bodies_.size(); body 0 is the world body
    owned_joints_,      \* joints in the order they were added
    owned_mobilizers_,  \* mobilizers in the order they were added
    topology_,          \* MultibodyTreeTopology
    body_node_levels_,  \* level partition: sequence (by level) of sequences
    body_nodes_,        \* BodyNode objects: index, parent, children
    model_instances_,   \* per model instance, the mobilizers it holds
    context,            \* generalized positions q and velocities v, or NoContext
    pc,                 \* PositionKinematicsCache: X_WB per node
    vc,                 \* VelocityKinematicsCache: V_WB per node
    A_WB_array,         \* caller-owned spatial accelerations, per node
    F_BMo_W_array,      \* caller-owned spatial forces, per node
    tau_array,          \* caller-owned generalized forces, per velocity
    H,                  \* caller-owned mass matrix: H[j] is column j
    outputs,            \* the other caller-owned output arguments, by name
    trace,              \* per-node invocations made by the last operation
    last_call,          \* the last operation and its arguments
    status              \* "ok", or "aborted" after a failed DRAKE_DEMAND

vars == <<num_bodies_, owned_joints_, owned_mobilizers_, topology_,
          body_node_levels_, body_nodes_, model_instances_, context, pc, vc,
          A_WB_array, F_BMo_W_array, tau_array, H, outputs, trace, last_call,
          status>>

tree_vars == <<num_bodies_, owned_joints_, owned_mobilizers_, topology_,
               body_node_levels_, body_nodes_, model_instances_>>

buffer_vars == <<A_WB_array, F_BMo_W_array, tau_array, H, outputs>>

----------------------------------------------------------------------------
(* Indices and small helpers.                                              *)

world_index == 0

world_model_instance == 0

default_model_instance == 1

\* An invalid (default constructed) TypeSafeIndex.
Invalid == -1

\* Eigen's fixed upper bound of the mobilities of one node (MatrixUpTo6).
kMaxNv == 6

\* Largest number of positions of one mobilizer.
kMaxQdot == 7

\* Largest number of joints in a list handed to a selector matrix.
MaxSelected == 2

JointTypes == {"revolute", "weld"}

MobilizerNv(type) ==
    CASE type = "revolute" -> 1
      [] type = "weld" -> 0
      [] type = "free" -> kMaxNv

MobilizerNq(type) ==
    CASE type = "revolute" -> 1
      [] type = "weld" -> 0
      [] type = "free" -> kMaxQdot

Size(arr) == Cardinality(DOMAIN arr)

EmptyArray == [i \in {} |-> 0]

RECURSIVE SumOver(_, _)
SumOver(f, S) ==
    IF S = {} THEN 0
    ELSE LET x == CHOOSE y \in S : TRUE IN f[x] + SumOver(f, S \ {x})

Max(S) == CHOOSE x \in S : \A y \in S : y <= x

----------------------------------------------------------------------------
(* Topology: the bodies' inboard mobilizers before finalization, and the   *)
(* breadth-first compilation into body nodes.                              *)

\* BodyTopology::inboard_mobilizer of a body: the index of the mobilizer
\* whose outboard body it is, or Invalid.
InboardMobilizer(mobilizers, body) ==
    LET S == {i \in 1..Len(mobilizers) : mobilizers[i].outboard = body}
    IN IF S = {} THEN Invalid ELSE (CHOOSE i \in S : TRUE) - 1

\* BodyTopology::child_bodies, in the order the mobilizers were added.
RECURSIVE ChildBodies(_, _, _)
ChildBodies(mobilizers, body, i) ==
    IF i > Len(mobilizers) THEN <<>>
    ELSE (IF mobilizers[i].inboard = body
          THEN <<mobilizers[i].outboard>> ELSE <<>>)
         \o ChildBodies(mobilizers, body, i + 1)

\* The bodies in breadth first traversal order, starting at the world.
RECURSIVE BreadthFirst(_, _, _)
BreadthFirst(mobilizers, queue, visited) ==
    IF queue = <<>> THEN visited
    ELSE BreadthFirst(mobilizers,
                      Tail(queue) \o ChildBodies(mobilizers, Head(queue), 1),
                      Append(visited, Head(queue)))

\* Is body a the body b or one of its descendants through the joints?
RECURSIVE IsDescendant(_, _, _, _)
IsDescendant(joints, a, b, fuel) ==
    \/ a = b
    \/ /\ fuel > 0
       /\ \E i \in 1..Len(joints) :
            /\ joints[i].child = a
            /\ IsDescendant(joints, joints[i].parent, b, fuel - 1)

NodeOfBody(order, body) ==
    (CHOOSE i \in 1..Len(order) : order[i] = body) - 1

\* MultibodyTreeTopology::Finalize(): one body node per body, numbered in
\* breadth first order, each with its level, its parent node, and its slice
\* of the generalized positions and velocities.
RECURSIVE CompileNodes(_, _, _, _)
CompileNodes(mobilizers, order, i, nodes) ==
    IF i > Len(order) THEN nodes
    ELSE LET body == order[i]
             mob == InboardMobilizer(mobilizers, body)
             type == IF mob = Invalid THEN "weld" ELSE mobilizers[mob + 1].type
             parent == IF mob = Invalid THEN Invalid
                       ELSE NodeOfBody(order, mobilizers[mob + 1].inboard)
             prev == IF i = 1 THEN [velocity_start |-> 0, num_velocities |-> 0,
                                    position_start |-> 0, num_positions |-> 0]
                     ELSE nodes[i - 1]
             node == [index |-> i - 1,
                      body |-> body,
                      mobilizer |-> mob,
                      parent_body_node |-> parent,
                      level |-> IF parent = Invalid THEN 0
                                ELSE nodes[parent + 1].level + 1,
                      num_velocities |-> IF mob = Invalid THEN 0
                                         ELSE MobilizerNv(type),
                      velocity_start |->
                          prev.velocity_start + prev.num_velocities,
                      num_positions |-> IF mob = Invalid THEN 0
                                        ELSE MobilizerNq(type),
                      position_start |->
                          prev.position_start + prev.num_positions]
         IN CompileNodes(mobilizers, order, i + 1, Append(nodes, node))

TopologyFinalize(mobilizers) ==
    LET order == BreadthFirst(mobilizers, <<world_index>>, <<>>)
        nodes == CompileNodes(mobilizers, order, 1, <<>>)
        last == nodes[Len(nodes)]
    IN [is_valid |-> TRUE,
        body_nodes |-> [n \in 0..(Len(nodes) - 1) |-> nodes[n + 1]],
        tree_height |-> Max({nodes[i].level : i \in 1..Len(nodes)}) + 1,
        num_velocities |-> last.velocity_start + last.num_velocities,
        num_positions |-> last.position_start + last.num_positions]

InvalidTopology ==
    [is_valid |-> FALSE, body_nodes |-> EmptyArray, tree_height |-> 0,
     num_velocities |-> 0, num_positions |-> 0]

topology_is_valid == topology_.is_valid

num_bodies == num_bodies_

num_velocities == topology_.num_velocities

num_positions == topology_.num_positions

tree_height == topology_.tree_height

get_num_body_nodes(topology) == Size(topology.body_nodes)

----------------------------------------------------------------------------
(* Construction of the tree.                                               *)

\* JointImplementationBuilder::Build(): the mobilizer that implements a joint,
\* between the joint's parent body and its child body, in the joint's model
\* instance.
JointMobilizer(joint) ==
    [inboard |-> joint.parent, outboard |-> joint.child, type |-> joint.type,
     model_instance |-> joint.model_instance]

RECURSIVE BuildJointImplementations(_, _, _)
BuildJointImplementations(joints, i, mobilizers) ==
    IF i > Len(joints) THEN mobilizers
    ELSE BuildJointImplementations(
             joints, i + 1, Append(mobilizers, JointMobilizer(joints[i])))

\* The model instance of a body: the world body is in the world instance,
\* every other body is added to the default instance.
BodyModelInstance(body) ==
    IF body = world_index THEN world_model_instance ELSE default_model_instance

\* Adds a quaternion floating mobilizer between the world and every body, the
\* world skipped, whether or not the body has an inboard mobilizer.
AddQuaternionFreeMobilizerToAllBodies(mobilizers, body_index, nbodies) ==
    mobilizers
        \o [i \in 1..(nbodies - body_index) |->
               [inboard |-> world_index, outboard |-> body_index + i - 1,
                type |-> "free",
                model_instance |-> BodyModelInstance(body_index + i - 1)]]

\* Adds a quaternion floating mobilizer between the world and every body, the
\* world skipped, that has no inboard mobilizer.
RECURSIVE AddQuaternionFreeMobilizerToAllBodiesWithNoMobilizer(_, _, _)
AddQuaternionFreeMobilizerToAllBodiesWithNoMobilizer(mobilizers, body_index, nbodies) ==
    IF body_index >= nbodies THEN mobilizers
    ELSE AddQuaternionFreeMobilizerToAllBodiesWithNoMobilizer(
             IF InboardMobilizer(mobilizers, body_index) = Invalid
             THEN Append(mobilizers,
                         [inboard |-> world_index, outboard |-> body_index,
                          type |-> "free",
                          model_instance |-> BodyModelInstance(body_index)])
             ELSE mobilizers,
             body_index + 1, nbodies)

\* The first body node index the level partition is filled from.
FirstNodeInLevels == world_index + 1

\* FinalizeInternals(): body_node_levels_ has one sequence per level, and
\* every body node from FirstNodeInLevels on is appended to the sequence of its
\* level, in ascending node index.
RECURSIVE FillBodyNodeLevels(_, _, _)
FillBodyNodeLevels(topology, body_node_index, levels) ==
    IF body_node_index >= get_num_body_nodes(topology) THEN levels
    ELSE LET level == topology.body_nodes[body_node_index].level
         IN FillBodyNodeLevels(
                topology, body_node_index + 1,
                [levels EXCEPT ![level] = Append(@, body_node_index)])

\* A level partition whose sequences hold their nodes in descending index.
MakeBodyNodeLevels_Descending(topology) ==
    LET levels == FillBodyNodeLevels(
                      topology, FirstNodeInLevels,
                      [l \in 0..(topology.tree_height - 1) |-> <<>>])
    IN [l \in DOMAIN levels |->
           [i \in 1..Len(levels[l]) |-> levels[l][Len(levels[l]) + 1 - i]]]

MakeBodyNodeLevels(topology) ==
    FillBodyNodeLevels(topology, FirstNodeInLevels,
                       [l \in 0..(topology.tree_height - 1) |-> <<>>])

\* A CreateBodyNode() that leaves out parent_node->add_child_node().
CreateBodyNode_NoChild(topology, nodes, body_node_index) ==
    LET node_topology == topology.body_nodes[body_node_index]
    IN nodes @@ (Size(nodes) :> [index |-> body_node_index,
                                 body |-> node_topology.body,
                                 mobilizer |-> node_topology.mobilizer,
                                 parent |-> node_topology.parent_body_node,
                                 children |-> <<>>])

\* CreateBodyNode(): the new BodyNode is pushed back, and registered as a
\* child of its parent's BodyNode unless it is the world's.
CreateBodyNode(topology, nodes, body_node_index) ==
    LET node_topology == topology.body_nodes[body_node_index]
        body_node == [index |-> body_node_index,
                      body |-> node_topology.body,
                      mobilizer |-> node_topology.mobilizer,
                      parent |-> node_topology.parent_body_node,
                      children |-> <<>>]
        with_child ==
            IF node_topology.body = world_index THEN nodes
            ELSE [nodes EXCEPT ![node_topology.parent_body_node].children =
                      Append(@, body_node_index)]
    IN with_child @@ (Size(nodes) :> body_node)

RECURSIVE CreateBodyNodes(_, _, _)
CreateBodyNodes(topology, body_node_index, nodes) ==
    IF body_node_index >= get_num_body_nodes(topology) THEN nodes
    ELSE CreateBodyNodes(topology, body_node_index + 1,
                         CreateBodyNode(topology, nodes, body_node_index))

num_model_instances == 2

\* CreateModelInstances(): every body node with positions or velocities adds
\* its mobilizer to the model instance of that mobilizer, in node order.
RECURSIVE AddMobilizersToInstances(_, _, _, _)
AddMobilizersToInstances(topology, mobilizers, body_node_index, instances) ==
    IF body_node_index >= get_num_body_nodes(topology) THEN instances
    ELSE LET node == topology.body_nodes[body_node_index]
         IN AddMobilizersToInstances(
                topology, mobilizers, body_node_index + 1,
                IF node.num_positions > 0 \/ node.num_velocities > 0
                THEN [instances EXCEPT
                         ![mobilizers[node.mobilizer + 1].model_instance] =
                             Append(@, node.mobilizer)]
                ELSE instances)

CreateModelInstances(topology, mobilizers) ==
    AddMobilizersToInstances(
        topology, mobilizers, 0,
        [m \in 0..(num_model_instances - 1) |-> <<>>])

NoCall == [op |-> "none", thrown |-> "none", args |-> <<>>, what |-> ""]

\* The record of an operation that threw an exception with the message what.
Throw(op, thrown, what, args) ==
    [op |-> op, thrown |-> thrown, args |-> args, what |-> what]

\* The record of an operation: what it was called with and the exception it
\* threw, if any.  std::bad_cast carries no message of the program.
Call(op, thrown, args) ==
    Throw(op, thrown, IF thrown = "bad_cast" THEN "std::bad_cast" ELSE "",
          args)

NoContext == [valid |-> FALSE, q |-> EmptyArray, v |-> EmptyArray]

NoCache == [up_to_date |-> FALSE, pool |-> EmptyArray]

\* No output argument other than A_WB_array, F_BMo_W_array, tau_array and H.
NoOutputs == EmptyArray

\* The caller holds no output buffers, and no exception of the last
\* operation: it hands fresh buffers to the next operation.
NoBuffersHeld ==
    /\ A_WB_array = EmptyArray
    /\ F_BMo_W_array = EmptyArray
    /\ tau_array = EmptyArray
    /\ H = EmptyArray
    /\ outputs = NoOutputs
    /\ last_call.thrown = "none"

Init ==
    /\ num_bodies_ = 1
    /\ owned_joints_ = <<>>
    /\ owned_mobilizers_ = <<>>
    /\ topology_ = InvalidTopology
    /\ body_node_levels_ = EmptyArray
    /\ body_nodes_ = EmptyArray
    /\ model_instances_ = EmptyArray
    /\ context = NoContext
    /\ pc = NoCache
    /\ vc = NoCache
    /\ A_WB_array = EmptyArray
    /\ F_BMo_W_array = EmptyArray
    /\ tau_array = EmptyArray
    /\ H = EmptyArray
    /\ outputs = NoOutputs
    /\ trace = <<>>
    /\ last_call = NoCall
    /\ status = "ok"

\* AddRigidBody(): a new body, in the default model instance.
AddRigidBody ==
    /\ status = "ok"
    /\ ~topology_is_valid
    /\ num_bodies_ < MaxBodies
    /\ num_bodies_' = num_bodies_ + 1
    /\ last_call' = Call("AddRigidBody", "none", <<>>)
    /\ UNCHANGED <<owned_joints_, owned_mobilizers_, topology_,
                   body_node_levels_, body_nodes_, model_instances_, context,
                   pc, vc, buffer_vars, trace, status>>

\* AddJoint(): a joint of the given type between two bodies of the tree; the
\* child body has no inboard joint yet and the joint closes no loop.  The
\* callers modelled add their joints in ascending order of the child body.
AddJoint(parent, child, type) ==
    /\ status = "ok"
    /\ ~topology_is_valid
    /\ parent /= child
    /\ child /= world_index
    /\ \A i \in 1..Len(owned_joints_) : owned_joints_[i].child < child
    /\ ~IsDescendant(owned_joints_, parent, child, num_bodies_)
    /\ owned_joints_' =
           Append(owned_joints_,
                  [parent |-> parent, child |-> child, type |-> type,
                   model_instance |-> default_model_instance])
    /\ last_call' = Call("AddJoint", "none", <<parent, child, type>>)
    /\ UNCHANGED <<num_bodies_, owned_mobilizers_, topology_,
                   body_node_levels_, body_nodes_, model_instances_, context,
                   pc, vc, buffer_vars, trace, status>>

\* A Finalize() that implements the joints before it looks at the topology.
Finalize_ImplementsJointsFirst ==
    /\ status = "ok"
    /\ NoBuffersHeld
    /\ IF topology_is_valid
       THEN /\ owned_mobilizers_' =
                   BuildJointImplementations(
                       owned_joints_, 1, owned_mobilizers_)
            /\ last_call' = Call("Finalize", "logic_error", <<>>)
            /\ UNCHANGED <<num_bodies_, owned_joints_, topology_,
                           body_node_levels_, body_nodes_, model_instances_,
                           context, pc, vc, buffer_vars, trace, status>>
       ELSE LET mobilizers ==
                    AddQuaternionFreeMobilizerToAllBodiesWithNoMobilizer(
                        BuildJointImplementations(
                            owned_joints_, 1, owned_mobilizers_),
                        1, num_bodies)
                topology == TopologyFinalize(mobilizers)
            IN /\ owned_mobilizers_' = mobilizers
               /\ topology_' = topology
               /\ body_node_levels_' = MakeBodyNodeLevels(topology)
               /\ body_nodes_' = CreateBodyNodes(topology, 0, EmptyArray)
               /\ model_instances_' =
                      CreateModelInstances(topology, mobilizers)
               /\ last_call' = Call("Finalize", "none", <<>>)
               /\ UNCHANGED <<num_bodies_, owned_joints_, context, pc, vc,
                              buffer_vars, trace, status>>

\* Finalize(): throws on a finalized tree; otherwise implements the joints
\* with mobilizers, gives a free mobilizer to the bodies left without one,
\* finalizes the topology and builds the internals.
Finalize ==
    /\ status = "ok"
    /\ NoBuffersHeld
    /\ IF topology_is_valid
       THEN /\ last_call' = Call("Finalize", "logic_error", <<>>)
            /\ UNCHANGED <<tree_vars, context, pc, vc, buffer_vars, trace,
                           status>>
       ELSE LET mobilizers ==
                    AddQuaternionFreeMobilizerToAllBodiesWithNoMobilizer(
                        BuildJointImplementations(
                            owned_joints_, 1, owned_mobilizers_),
                        1, num_bodies)
                topology == TopologyFinalize(mobilizers)
            IN /\ owned_mobilizers_' = mobilizers
               /\ topology_' = topology
               /\ body_node_levels_' = MakeBodyNodeLevels(topology)
               /\ body_nodes_' = CreateBodyNodes(topology, 0, EmptyArray)
               /\ model_instances_' =
                      CreateModelInstances(topology, mobilizers)
               /\ last_call' = Call("Finalize", "none", <<>>)
               /\ UNCHANGED <<num_bodies_, owned_joints_, context, pc, vc,
                              buffer_vars, trace, status>>

\* FinalizeTopology() called on a finalized tree: the topology is valid, so
\* it throws before topology_.Finalize().  On a tree that is not finalized
\* FinalizeTopology() runs as a step of Finalize() above.
CallFinalizeTopology ==
    /\ status = "ok"
    /\ NoBuffersHeld
    /\ topology_is_valid
    /\ last_call' = Call("FinalizeTopology", "logic_error", <<>>)
    /\ UNCHANGED <<tree_vars, context, pc, vc, buffer_vars, trace, status>>

----------------------------------------------------------------------------
(* Values handed in by callers.                                            *)

\* Shapes of the vectors and arrays a caller passes: no entries, all zero,
\* distinct non-zero entries, or one entry too many.
Shapes == {"empty", "zeros", "ramp", "long"}

MakeArray(shape, n) ==
    CASE shape = "empty" -> EmptyArray
      [] shape = "zeros" -> [i \in 0..(n - 1) |-> 0]
      [] shape = "ramp" -> [i \in 0..(n - 1) |-> i + 1]
      [] shape = "long" -> [i \in 0..n |-> 1]

\* What a buffer holds that the callee has not written yet: values left by
\* an earlier use, different from entry to entry.
Stale == {40, 70}

StaleArray(g, n) == [i \in 0..(n - 1) |-> g + i]

Zero(n) == [i \in 0..(n - 1) |-> 0]

Unit(n, j) == [i \in 0..(n - 1) |-> IF i = j THEN 1 ELSE 0]

Event(op, node) == [op |-> op, node |-> node]

\* A null pointer passed for an output vector: it has no entry of a valid
\* index.
NullPtr == [i \in {Invalid} |-> 0]

\* std::vector::resize(n, fill): keeps the first entries, fills the new ones.
Resize(vector, n, fill) ==
    [i \in 0..(n - 1) |-> IF i \in DOMAIN vector THEN vector[i] ELSE fill]

\* The sizes of the vectors a caller hands in as output arguments: of the
\* size the model asks for, with no entries, or one entry too many.
OutputSizes(n) == {n, 0, n + 1}

\* The output vectors a caller passes: of one of these sizes, holding stale
\* values, or null.
OutputVectors(g, n) ==
    {StaleArray(g, size) : size \in OutputSizes(n)} \cup {NullPtr}

----------------------------------------------------------------------------
(* BodyNode: the per-node computations.                                    *)

\* [velocity_start, velocity_start + num_velocities)
VelocitySlice(node_topology) ==
    node_topology.velocity_start ..
        (node_topology.velocity_start + node_topology.num_velocities - 1)

\* [position_start, position_start + num_positions)
PositionSlice(node_topology) ==
    node_topology.position_start ..
        (node_topology.position_start + node_topology.num_positions - 1)

\* The mass of the body of a node.
Mass(node_topology) == node_topology.body + 1

\* Mobilizer: the pose of the body in its parent, from the node's positions.
X_PB(node_topology, q) ==
    1 + SumOver(q, PositionSlice(node_topology))

\* The entry of the parent of a node in a per-node array.  The world has no
\* parent: the identity (zero) value stands for it.
ParentEntry(node_topology, array) ==
    IF node_topology.parent_body_node = Invalid THEN 0
    ELSE array[node_topology.parent_body_node]

\* BodyNode::CalcPositionKinematicsCache_BaseToTip(): the node's pose is the
\* parent's pose composed with the across-mobilizer pose.
CalcPositionKinematicsCache_BaseToTip(node_topology, q, X_WB) ==
    [X_WB EXCEPT ![node_topology.index] =
        ParentEntry(node_topology, X_WB) + X_PB(node_topology, q)]

\* Column k of the node's across-node Jacobian H_PB_W, a function of the
\* node's own position kinematics.
H_PB_W_column(node_topology, k, X_WB) ==
    ((X_WB[node_topology.index] + k) % 3) + 1

\* BodyNode::CalcAcrossNodeGeometricJacobianExpressedInWorld(): writes the
\* node's block of the Jacobian array.
NodeCalcAcrossNodeGeometricJacobian(node_topology, X_WB, H_PB_W_cache) ==
    [k \in DOMAIN H_PB_W_cache |->
        IF k \in VelocitySlice(node_topology)
        THEN H_PB_W_column(node_topology, k, X_WB)
        ELSE H_PB_W_cache[k]]

\* BodyNode::GetJacobianFromArray(): the block of the array at the node's
\* velocity slice.
GetJacobianFromArray(node_topology, H_PB_W_cache) ==
    [k \in VelocitySlice(node_topology) |-> H_PB_W_cache[k]]

\* H_PB_W times the node's slice of a generalized vector.
AcrossMobilizer(node_topology, H_PB_W, vec) ==
    SumOver([k \in VelocitySlice(node_topology) |-> H_PB_W[k] * vec[k]],
            VelocitySlice(node_topology))

\* BodyNode::CalcVelocityKinematicsCache_BaseToTip(): the parent's velocity
\* shifted to the body plus the velocity across the mobilizer.
CalcVelocityKinematicsCache_BaseToTip(node_topology, H_PB_W, v, V_WB) ==
    [V_WB EXCEPT ![node_topology.index] =
        ParentEntry(node_topology, V_WB)
        + AcrossMobilizer(node_topology, H_PB_W, v)]

\* BodyNode::CalcSpatialAcceleration_BaseToTip(): the parent's acceleration
\* shifted to the body, plus the acceleration across the mobilizer, plus the
\* velocity dependent bias.
CalcSpatialAcceleration_BaseToTip(node_topology, X_WB, V_WB, vdot, A_WB) ==
    LET Hn == [k \in VelocitySlice(node_topology) |->
                  H_PB_W_column(node_topology, k, X_WB)]
        V_P == ParentEntry(node_topology, V_WB)
        V_PB == V_WB[node_topology.index] - V_P
    IN [A_WB EXCEPT ![node_topology.index] =
           ParentEntry(node_topology, A_WB)
           + AcrossMobilizer(node_topology, Hn, vdot)
           + V_P * V_PB]

\* A force projection that adds to the entries of tau instead of setting
\* them.
CalcInverseDynamics_TipToBase_Accumulates(node, node_topology, X_WB, A_WB, Fapplied_Bo_W, tau_applied_mobilizer, F_array, tau) ==
    LET children == {node.children[i] : i \in 1..Len(node.children)}
        inertial == IF node_topology.body = world_index THEN 0
                    ELSE Mass(node_topology) * A_WB[node_topology.index]
        F_BMo_W == inertial - Fapplied_Bo_W + SumOver(F_array, children)
        applied(k) == IF Size(tau_applied_mobilizer) = 0 THEN 0
                      ELSE tau_applied_mobilizer[
                               k - node_topology.velocity_start]
    IN [F |-> [F_array EXCEPT ![node_topology.index] = F_BMo_W],
        tau |-> [k \in DOMAIN tau |->
                    IF k \in VelocitySlice(node_topology)
                    THEN tau[k] + H_PB_W_column(node_topology, k, X_WB) * F_BMo_W
                         - applied(k)
                    ELSE tau[k]]]

\* BodyNode::CalcInverseDynamics_TipToBase(): the Newton-Euler balance of the
\* body, with the forces of the children already in the output array, and its
\* projection onto the node's generalized forces.  Returns the two output
\* arrays.
CalcInverseDynamics_TipToBase(node, node_topology, X_WB, A_WB, Fapplied_Bo_W, tau_applied_mobilizer, F_array, tau) ==
    LET children == {node.children[i] : i \in 1..Len(node.children)}
        inertial == IF node_topology.body = world_index THEN 0
                    ELSE Mass(node_topology) * A_WB[node_topology.index]
        F_BMo_W == inertial - Fapplied_Bo_W + SumOver(F_array, children)
        applied(k) == IF Size(tau_applied_mobilizer) = 0 THEN 0
                      ELSE tau_applied_mobilizer[
                               k - node_topology.velocity_start]
    IN [F |-> [F_array EXCEPT ![node_topology.index] = F_BMo_W],
        tau |-> [k \in DOMAIN tau |->
                    IF k \in VelocitySlice(node_topology)
                    THEN H_PB_W_column(node_topology, k, X_WB) * F_BMo_W
                         - applied(k)
                    ELSE tau[k]]]

\* Mobilizer::get_generalized_forces_from_array(): the node's segment of a
\* generalized force vector, indexed from zero.
get_generalized_forces_from_array(node_topology, tau_applied) ==
    [i \in 0..(node_topology.num_velocities - 1) |->
        tau_applied[node_topology.velocity_start + i]]

\* BodyNode::CalcArticulatedBodyInertiaCache_TipToBase(): the body's inertia
\* plus the articulated inertias of the children, already in the cache,
\* projected across the node's own mobilizer with the hinge matrix H_PB_W.
CalcArticulatedBodyInertiaCache_TipToBase(node, node_topology, H_PB_W, abc) ==
    LET children == {node.children[i] : i \in 1..Len(node.children)}
        P_B_W == Mass(node_topology) + SumOver(abc, children)
    IN [abc EXCEPT ![node_topology.index] =
           P_B_W + SumOver(H_PB_W, DOMAIN H_PB_W)]

----------------------------------------------------------------------------
(* Tree-wide sweep drivers.                                                *)

\* The nodes of the levels level .. height-1, level by level, each level in
\* the order of its sequence: for (level; level < height; ++level).
RECURSIVE LevelsBaseToTip(_, _, _)
LevelsBaseToTip(levels, level, height) ==
    IF level >= height THEN <<>>
    ELSE levels[level] \o LevelsBaseToTip(levels, level + 1, height)

\* The nodes of the levels depth down to lowest: for (depth; depth >= lowest;
\* --depth).
RECURSIVE LevelsTipToBase(_, _, _)
LevelsTipToBase(levels, depth, lowest) ==
    IF depth < lowest THEN <<>>
    ELSE levels[depth] \o LevelsTipToBase(levels, depth - 1, lowest)

\* The nodes first .. last-1 in ascending index.
RECURSIVE NodesAscending(_, _)
NodesAscending(first, last) ==
    IF first >= last THEN <<>>
    ELSE <<first>> \o NodesAscending(first + 1, last)

\* A position sweep that runs over the levels from the tip to the base.
PositionSweepOrder_TipFirst ==
    LevelsTipToBase(body_node_levels_, tree_height - 1, 1)

\* The loop of CalcPositionKinematicsCache(): skips the world, level = 0.
PositionSweepOrder == LevelsBaseToTip(body_node_levels_, 1, tree_height)

\* A velocity sweep that runs over every body node, the world included.
VelocitySweepOrder_AllNodes == NodesAscending(0, num_bodies)

\* The loop of CalcVelocityKinematicsCache(): skips the world, depth = 0.
VelocitySweepOrder == LevelsBaseToTip(body_node_levels_, 1, tree_height)

\* The loop of CalcSpatialAccelerationsFromVdot(): skips the world.
AccelerationSweepOrder == LevelsBaseToTip(body_node_levels_, 1, tree_height)

\* A force recursion that runs over the levels from the base to the tip.
InverseDynamicsSweepOrder_BaseToTip ==
    LevelsBaseToTip(body_node_levels_, 0, tree_height)

\* The loop of CalcInverseDynamics(): depth = tree_height - 1 down to 0.
InverseDynamicsSweepOrder ==
    LevelsTipToBase(body_node_levels_, tree_height - 1, 0)

\* A Jacobian loop that starts one node too late.
JacobianNodeOrder_SkipsFirst == NodesAscending(2, num_bodies)

\* The loop of CalcAcrossNodeGeometricJacobianExpressedInWorld(): every node
\* but the world, in ascending node index.
JacobianNodeOrder == NodesAscending(1, num_bodies)

RECURSIVE PositionSweep(_, _, _, _, _)
PositionSweep(order, i, q, X_WB, tr) ==
    IF i > Len(order) THEN [pool |-> X_WB, trace |-> tr]
    ELSE PositionSweep(
             order, i + 1, q,
             CalcPositionKinematicsCache_BaseToTip(
                 topology_.body_nodes[order[i]], q, X_WB),
             Append(tr, Event("X", order[i])))

\* CalcPositionKinematicsCache(): the base-to-tip recursion over the levels.
CalcPositionKinematicsCache(q, X_WB) ==
    PositionSweep(PositionSweepOrder, 1, q, X_WB, <<>>)

RECURSIVE JacobianSweep(_, _, _, _, _)
JacobianSweep(order, i, X_WB, H_PB_W_cache, tr) ==
    IF i > Len(order) THEN [cache |-> H_PB_W_cache, trace |-> tr]
    ELSE JacobianSweep(
             order, i + 1, X_WB,
             NodeCalcAcrossNodeGeometricJacobian(
                 topology_.body_nodes[order[i]], X_WB, H_PB_W_cache),
             Append(tr, Event("H", order[i])))

\* CalcAcrossNodeGeometricJacobianExpressedInWorld(): every non-world node
\* writes its block of the array.
CalcAcrossNodeGeometricJacobianExpressedInWorld(X_WB, H_PB_W_cache) ==
    JacobianSweep(JacobianNodeOrder, 1, X_WB, H_PB_W_cache, <<>>)

\* The Jacobian block handed to the velocity propagation of a node.
VelocityJacobianBlock(node_topology, H_PB_W_cache) ==
    GetJacobianFromArray(node_topology, H_PB_W_cache)

RECURSIVE VelocitySweep(_, _, _, _, _, _)
VelocitySweep(order, i, H_PB_W_cache, v, V_WB, tr) ==
    IF i > Len(order) THEN [pool |-> V_WB, trace |-> tr]
    ELSE LET node_topology == topology_.body_nodes[order[i]]
         IN VelocitySweep(
                order, i + 1, H_PB_W_cache, v,
                CalcVelocityKinematicsCache_BaseToTip(
                    node_topology,
                    VelocityJacobianBlock(node_topology, H_PB_W_cache),
                    v, V_WB),
                Append(tr, Event("V", order[i])))

\* The Jacobian array CalcVelocityKinematicsCache() sweeps with: a local
\* array of num_velocities() entries, not initialized, filled by
\* CalcAcrossNodeGeometricJacobianExpressedInWorld().
VelocityJacobianArray(X_WB, g) ==
    CalcAcrossNodeGeometricJacobianExpressedInWorld(
        X_WB, StaleArray(g, num_velocities))

\* CalcVelocityKinematicsCache(): the Jacobian array first, then the
\* base-to-tip recursion over the levels.
CalcVelocityKinematicsCache(X_WB, v, V_WB, g) ==
    LET jac == VelocityJacobianArray(X_WB, g)
    IN VelocitySweep(VelocitySweepOrder, 1, jac.cache, v, V_WB, jac.trace)

RECURSIVE AccelerationSweep(_, _, _, _, _, _, _)
AccelerationSweep(order, i, X_WB, V_WB, vdot, A_WB, tr) ==
    IF i > Len(order) THEN [A |-> A_WB, trace |-> tr]
    ELSE AccelerationSweep(
             order, i + 1, X_WB, V_WB, vdot,
             CalcSpatialAcceleration_BaseToTip(
                 topology_.body_nodes[order[i]], X_WB, V_WB, vdot, A_WB),
             Append(tr, Event("A", order[i])))

\* An acceleration sweep that leaves the world's entry as it finds it.
WorldAccelerationSet_Missing(A_WB) == A_WB

\* The array CalcSpatialAccelerationsFromVdot() starts its recursion from:
\* the world's entry is set to zero.
WorldAccelerationSet(A_WB) == [A_WB EXCEPT ![world_index] = 0]

\* The contexts a caller can hand in: the context of a multibody tree, and a
\* context of another system.
ContextKinds == {"MultibodyTreeContext", "LeafContext"}

\* One precondition of an operation: whether it holds, and how the operation
\* fails when it does not.
Check(holds, failure) == [holds |-> holds, failure |-> failure]

\* dynamic_cast<const MultibodyTreeContext<T>&>(context): the cast to a
\* reference throws std::bad_cast on another context.
ReferenceCast(context_kind) ==
    Check(context_kind = "MultibodyTreeContext", "bad_cast")

\* The first precondition, in the order of the code, that does not hold.
RECURSIVE FirstFailure(_, _)
FirstFailure(checks, i) ==
    IF i > Len(checks) THEN "none"
    ELSE IF ~checks[i].holds THEN checks[i].failure
    ELSE FirstFailure(checks, i + 1)

\* What a caller sees of a failed precondition: DRAKE_DEMAND aborts the
\* process, the others throw.
StatusAfter(failure) == IF failure = "DRAKE_DEMAND" THEN "aborted" ELSE "ok"

ThrownBy(failure) == IF failure = "DRAKE_DEMAND" THEN "none" ELSE failure

\* The preconditions of CalcSpatialAccelerationsFromVdot(), before it
\* writes the world's entry.
SpatialAccelerationsPreconditions(known_vdot, A_WB, context_kind) ==
    FirstFailure(
        <<Check(A_WB /= NullPtr, "DRAKE_DEMAND"),
          Check(Size(A_WB) = num_bodies, "DRAKE_DEMAND"),
          Check(Size(known_vdot) = num_velocities, "DRAKE_DEMAND"),
          ReferenceCast(context_kind)>>, 1)

\* The preconditions of CalcAccelerationKinematicsCache(), then those of
\* CalcSpatialAccelerationsFromVdot() on the pool of the cache.
AccelerationKinematicsCachePreconditions(known_vdot, ac, context_kind) ==
    FirstFailure(
        <<Check(ac /= NullPtr, "DRAKE_DEMAND"),
          Check(Size(known_vdot) = num_velocities, "DRAKE_DEMAND"),
          Check(Size(ac) = num_bodies, "DRAKE_DEMAND"),
          ReferenceCast(context_kind)>>, 1)

\* CalcSpatialAccelerationsFromVdot(): fails its DRAKE_DEMANDs on a wrong
\* size; otherwise zeroes the world's entry and recurses base to tip.
CalcSpatialAccelerationsFromVdot(X_WB, V_WB, known_vdot, A_WB) ==
    IF SpatialAccelerationsPreconditions(
           known_vdot, A_WB, "MultibodyTreeContext") /= "none"
    THEN [ok |-> FALSE, A |-> A_WB, trace |-> <<>>]
    ELSE LET r == AccelerationSweep(
                      AccelerationSweepOrder, 1, X_WB, V_WB, known_vdot,
                      WorldAccelerationSet(A_WB),
                      <<Event("Azero", world_index)>>)
         IN [ok |-> TRUE, A |-> r.A, trace |-> r.trace]


\* An applied spatial force local that is not initialized.
InitialFapplied_Bo_W_Uninitialized == CHOOSE g \in Stale : TRUE

\* The applied spatial force a node uses when no array of applied spatial
\* forces is given: the local is initialized to zero before the loop.
InitialFapplied_Bo_W == Zero(1)[0]

\* The applied generalized forces a node uses when no vector of applied
\* generalized forces is given: the local has size zero.
InitialTauAppliedMobilizer == EmptyArray

\* One pass of the tip-to-base loop of CalcInverseDynamics().  The applied
\* arrays are read at the time the node is reached: when they are the same
\* objects as the output arrays (aliased) they hold what the output arrays
\* hold at that time.  The node's applied values are copied into the locals
\* before the node's computation writes the outputs.
\* A loop that adds the node's applied spatial force to the local.
NodeFapplied_Bo_W_Accumulating(Fapplied_Bo_W, Fapplied_size, array, body_node_index) ==
    IF Fapplied_size /= 0 THEN Fapplied_Bo_W + array[body_node_index]
    ELSE Fapplied_Bo_W

\* The applied spatial force of a pass of the loop: if an array was given,
\* Fapplied_Bo_W = Fapplied_Bo_W_array[body_node_index]; if not, the local
\* keeps its value.
NodeFapplied_Bo_W(Fapplied_Bo_W, Fapplied_size, array, body_node_index) ==
    IF Fapplied_size /= 0 THEN array[body_node_index]
    ELSE Fapplied_Bo_W

RECURSIVE InverseDynamicsSweep(_, _, _, _, _, _, _, _, _, _)
InverseDynamicsSweep(order, i, X_WB, A_WB, Fapplied_Bo_W_array, tau_applied_array, aliased, Fapplied_size, tau_applied_size, st) ==
    IF i > Len(order) THEN st
    ELSE LET body_node_index == order[i]
             node_topology == topology_.body_nodes[body_node_index]
             tau_applied_mobilizer ==
                 IF tau_applied_size /= 0
                 THEN get_generalized_forces_from_array(
                          node_topology,
                          IF aliased THEN st.tau ELSE tau_applied_array)
                 ELSE st.tau_applied_mobilizer
             Fapplied_Bo_W ==
                 NodeFapplied_Bo_W(
                     st.Fapplied_Bo_W, Fapplied_size,
                     IF aliased THEN st.F ELSE Fapplied_Bo_W_array,
                     body_node_index)
             r == CalcInverseDynamics_TipToBase(
                      body_nodes_[body_node_index], node_topology, X_WB, A_WB,
                      Fapplied_Bo_W, tau_applied_mobilizer, st.F, st.tau)
         IN InverseDynamicsSweep(
                order, i + 1, X_WB, A_WB, Fapplied_Bo_W_array,
                tau_applied_array, aliased, Fapplied_size, tau_applied_size,
                [F |-> r.F, tau |-> r.tau,
                 Fapplied_Bo_W |-> Fapplied_Bo_W,
                 tau_applied_mobilizer |-> tau_applied_mobilizer,
                 trace |-> Append(st.trace, Event("F", body_node_index))])

\* The size preconditions of the buffer-filling CalcInverseDynamics().
InverseDynamicsSizesOk(known_vdot, Fapplied_size, tau_applied_size, A_WB, F_array, tau) ==
    /\ Size(known_vdot) = num_velocities
    /\ (Fapplied_size = num_bodies \/ Fapplied_size = 0)
    /\ (tau_applied_size = num_velocities \/ tau_applied_size = 0)
    /\ Size(A_WB) = num_bodies
    /\ Size(F_array) = num_bodies
    /\ Size(tau) = num_velocities

\* The preconditions of the buffer-filling CalcInverseDynamics(), in the
\* order of the code.  A_WB_array and F_BMo_W_array are compared with nullptr
\* before their size is read; the size of tau_array is read with no such
\* comparison.
InverseDynamicsPreconditions(known_vdot, Fapplied_size, tau_applied_size, A_WB, F_array, tau, context_kind) ==
    FirstFailure(
        <<Check(Size(known_vdot) = num_velocities, "DRAKE_DEMAND"),
          Check(Fapplied_size = num_bodies \/ Fapplied_size = 0,
                "DRAKE_DEMAND"),
          Check(tau_applied_size = num_velocities \/ tau_applied_size = 0,
                "DRAKE_DEMAND"),
          Check(A_WB /= NullPtr, "DRAKE_DEMAND"),
          Check(Size(A_WB) = num_bodies, "DRAKE_DEMAND"),
          Check(F_array /= NullPtr, "DRAKE_DEMAND"),
          Check(Size(F_array) = num_bodies, "DRAKE_DEMAND"),
          Check(tau /= NullPtr, "null_dereference"),
          Check(Size(tau) = num_velocities, "DRAKE_DEMAND"),
          ReferenceCast(context_kind)>>, 1)

\* What reading the size of a null tau_array can do: the read faults; the
\* value read differs from num_velocities() and the DRAKE_DEMAND aborts; or
\* the value read equals num_velocities(), the accelerations are computed
\* and the first write through the pointer faults.
NullDereferenceOutcomes == {"fault", "abort", "fault_after_accelerations"}

\* The buffer-filling CalcInverseDynamics(): the size checks, the
\* acceleration sweep, then the tip-to-base force recursion.  With aliased
\* the applied arrays are the output arrays F_array and tau themselves.
CalcInverseDynamics(X_WB, V_WB, known_vdot, Fapplied_Bo_W_array, tau_applied_array, aliased, A_WB, F_array, tau) ==
    LET Fapplied_size ==
            Size(IF aliased THEN F_array ELSE Fapplied_Bo_W_array)
        tau_applied_size ==
            Size(IF aliased THEN tau ELSE tau_applied_array)
    IN IF ~InverseDynamicsSizesOk(known_vdot, Fapplied_size,
                                  tau_applied_size, A_WB, F_array, tau)
       THEN [ok |-> FALSE, A |-> A_WB, F |-> F_array, tau |-> tau,
             trace |-> <<>>]
       ELSE LET acc == CalcSpatialAccelerationsFromVdot(
                           X_WB, V_WB, known_vdot, A_WB)
                st == InverseDynamicsSweep(
                          InverseDynamicsSweepOrder, 1, X_WB, acc.A,
                          Fapplied_Bo_W_array, tau_applied_array, aliased,
                          Fapplied_size, tau_applied_size,
                          [F |-> F_array, tau |-> tau,
                           Fapplied_Bo_W |-> InitialFapplied_Bo_W,
                           tau_applied_mobilizer |->
                               InitialTauAppliedMobilizer,
                           trace |-> acc.trace])
            IN [ok |-> TRUE, A |-> acc.A, F |-> st.F, tau |-> st.tau,
                trace |-> st.trace]

\* The order of the probes of DoCalcMassMatrixViaInverseDynamics():
\* for (j = 0; j < nv; ++j).
MassMatrixProbeOrder == NodesAscending(0, num_velocities)

\* The probes of DoCalcMassMatrixViaInverseDynamics() in a given order, with
\* the buffers tau, A_WB_array and F_BMo_W_array reused from probe to probe:
\* vdot is the j-th unit vector, tau is set to zero, inverse dynamics runs
\* with no applied forces and column j is set to tau.
\* A probe that sets entry j of vdot and keeps the other entries.
ProbeVdot_Accumulating(vdot, j) == [vdot EXCEPT ![j] = 1]

\* The generalized acceleration of probe j: vdot = Unit(nv, j) replaces the
\* whole vector.
ProbeVdot(vdot, j) == Unit(num_velocities, j)

RECURSIVE MassMatrixProbes(_, _, _, _)
MassMatrixProbes(order, i, X_WB, st) ==
    IF i > Len(order) THEN st
    ELSE LET j == order[i]
             vdot == ProbeVdot(st.vdot, j)
             r == CalcInverseDynamics(
                      X_WB, Zero(num_bodies), vdot,
                      EmptyArray, EmptyArray, FALSE,
                      st.A, st.F, Zero(num_velocities))
         IN MassMatrixProbes(
                order, i + 1, X_WB,
                [H |-> [st.H EXCEPT ![j] = r.tau],
                 vdot |-> vdot,
                 A |-> r.A, F |-> r.F, tau |-> r.tau,
                 trace |-> st.trace \o r.trace])

\* The state DoCalcMassMatrixViaInverseDynamics() starts its loop in: the
\* caller's matrix, and local buffers that are not initialized.
MassMatrixStart(Hin, g) ==
    [H |-> Hin,
     vdot |-> StaleArray(g + 3, num_velocities),
     A |-> StaleArray(g, num_bodies),
     F |-> StaleArray(g + 1, num_bodies),
     tau |-> StaleArray(g + 2, num_velocities),
     trace |-> <<>>]

\* DoCalcMassMatrixViaInverseDynamics(): one column per probe, with a
\* velocity kinematics cache initialized to zero.
DoCalcMassMatrixViaInverseDynamics(X_WB, Hin, g) ==
    MassMatrixProbes(MassMatrixProbeOrder, 1, X_WB, MassMatrixStart(Hin, g))

\* A caller-owned num_velocities() x num_velocities() matrix, column by
\* column, holding stale values.
StaleMatrix(g) ==
    [j \in 0..(num_velocities - 1) |-> StaleArray(g + j, num_velocities)]

\* A caller-owned matrix of num_velocities() rows and the given number of
\* columns.
StaleMatrixOfCols(g, cols) ==
    [j \in 0..(cols - 1) |-> StaleArray(g + j, num_velocities)]

\* Body::node_index(): the body node of a body.
node_index(body_index) ==
    CHOOSE n \in DOMAIN topology_.body_nodes :
        topology_.body_nodes[n].body = body_index

\* The loop of CalcAllBodyPosesInWorld() and of
\* CalcAllBodySpatialVelocitiesInWorld(): entry body_index of the vector is
\* set from the cache entry of the body's node.
RECURSIVE CopyPoolByBody(_, _, _)
CopyPoolByBody(body_index, pool, vector) ==
    IF body_index >= num_bodies THEN vector
    ELSE CopyPoolByBody(
             body_index + 1, pool,
             [vector EXCEPT ![body_index] = pool[node_index(body_index)]])

\* A CalcAllBodyPosesInWorld() that demands a vector of num_bodies() entries.
CalcAllBodyPosesInWorld_DemandsSize(X_WB, X_pool) ==
    IF X_WB = NullPtr \/ Size(X_WB) /= num_bodies
    THEN [thrown |-> "DRAKE_THROW_UNLESS", X_WB |-> X_WB]
    ELSE [thrown |-> "none", X_WB |-> CopyPoolByBody(0, X_pool, X_WB)]

\* CalcAllBodyPosesInWorld(): throws on a null vector; a vector of another
\* size than num_bodies() is resized, the new entries being the identity;
\* then every entry is set from the position kinematics cache.
CalcAllBodyPosesInWorld(X_WB, X_pool) ==
    IF X_WB = NullPtr
    THEN [thrown |-> "DRAKE_THROW_UNLESS", X_WB |-> X_WB]
    ELSE [thrown |-> "none",
          X_WB |-> CopyPoolByBody(
                       0, X_pool,
                       IF Size(X_WB) /= num_bodies
                       THEN Resize(X_WB, num_bodies, 0)
                       ELSE X_WB)]

\* CalcAllBodySpatialVelocitiesInWorld(): as CalcAllBodyPosesInWorld(), with
\* the velocity kinematics cache and zero for the new entries.
CalcAllBodySpatialVelocitiesInWorld(V_WB, V_pool) ==
    IF V_WB = NullPtr
    THEN [thrown |-> "DRAKE_THROW_UNLESS", V_WB |-> V_WB]
    ELSE [thrown |-> "none",
          V_WB |-> CopyPoolByBody(
                       0, V_pool,
                       IF Size(V_WB) /= num_bodies
                       THEN Resize(V_WB, num_bodies, 0)
                       ELSE V_WB)]

\* Generalized accelerations that are left as allocated.
BiasTermVdot_NotZeroed == MakeArray("ramp", num_velocities)

\* The generalized accelerations of DoCalcBiasTerm():
\* vdot = VectorX<T>::Zero(nv).
BiasTermVdot == Zero(num_velocities)

\* DoCalcBiasTerm(): inverse dynamics with zero generalized accelerations
\* and no applied forces, on local arrays that are not initialized, with Cv
\* as the generalized forces output.
DoCalcBiasTerm(X_WB, V_WB, Cv, g) ==
    CalcInverseDynamics(
        X_WB, V_WB, BiasTermVdot, EmptyArray, EmptyArray, FALSE,
        StaleArray(g, num_bodies), StaleArray(g + 1, num_bodies), Cv)

\* CalcBiasTerm(): demands a vector of num_velocities() rows.
CalcBiasTerm(X_WB, V_WB, Cv, g) ==
    IF Cv = NullPtr \/ Size(Cv) /= num_velocities
    THEN [ok |-> FALSE, Cv |-> Cv, trace |-> <<>>]
    ELSE LET r == DoCalcBiasTerm(X_WB, V_WB, Cv, g)
         IN [ok |-> TRUE, Cv |-> r.tau, trace |-> r.trace]

\* The demands of CalcMassMatrixViaInverseDynamics() on H: not null,
\* num_velocities() rows and num_velocities() columns.
MassMatrixSizesOk(Hin) ==
    /\ Hin /= NullPtr
    /\ Size(Hin) = num_velocities
    /\ \A j \in DOMAIN Hin : Size(Hin[j]) = num_velocities

\* CalcMassMatrixViaInverseDynamics(): the demands on H, then the probes.
CalcMassMatrixViaInverseDynamics(X_WB, Hin, g) ==
    IF ~MassMatrixSizesOk(Hin)
    THEN [ok |-> FALSE, H |-> Hin, trace |-> <<>>]
    ELSE LET r == DoCalcMassMatrixViaInverseDynamics(X_WB, Hin, g)
         IN [ok |-> TRUE, H |-> r.H, trace |-> r.trace]

\* An articulated-body recursion that runs from the base to the tip.
ArticulatedBodyInertiaSweepOrder_BaseToTip ==
    LevelsBaseToTip(body_node_levels_, 1, tree_height)

\* The loop of CalcArticulatedBodyInertiaCache(): tip to base, skipping the
\* world: for (depth = tree_height() - 1; depth > 0; depth--).
ArticulatedBodyInertiaSweepOrder ==
    LevelsTipToBase(body_node_levels_, tree_height - 1, 1)

RECURSIVE ArticulatedBodyInertiaSweep(_, _, _, _, _)
ArticulatedBodyInertiaSweep(order, i, H_PB_W_cache, abc, tr) ==
    IF i > Len(order) THEN [abc |-> abc, trace |-> tr]
    ELSE LET body_node_index == order[i]
             node_topology == topology_.body_nodes[body_node_index]
         IN ArticulatedBodyInertiaSweep(
                order, i + 1, H_PB_W_cache,
                CalcArticulatedBodyInertiaCache_TipToBase(
                    body_nodes_[body_node_index], node_topology,
                    GetJacobianFromArray(node_topology, H_PB_W_cache), abc),
                Append(tr, Event("P", body_node_index)))

\* CalcArticulatedBodyInertiaCache(): the Jacobian array, a local that is
\* not initialized, is filled first; then the tip-to-base recursion.
CalcArticulatedBodyInertiaCache(X_WB, abc, g) ==
    LET jac == CalcAcrossNodeGeometricJacobianExpressedInWorld(
                   X_WB, StaleArray(g, num_velocities))
    IN ArticulatedBodyInertiaSweep(
           ArticulatedBodyInertiaSweepOrder, 1, jac.cache, abc, jac.trace)

----------------------------------------------------------------------------
(* Frames, points and relative transforms.  A transform is an isometry of  *)
(* the line, p |-> s * p + t with s = 1 or s = -1; a matrix of three-row   *)
(* blocks is kept column by column, one entry per block of three rows.     *)

Isometry(s, t) == [s |-> s, t |-> t]

Identity == Isometry(1, 0)

\* X * Y: first Y, then X.
Compose(X, Y) == Isometry(X.s * Y.s, X.s * Y.t + X.t)

\* Isometry3::inverse().
Inverse(X) == Isometry(X.s, 0 - X.s * X.t)

\* X * p, for a point p.
Apply(X, p) == X.s * p + X.t

\* pc.get_X_WB(node): the pose of a body in the world.
get_X_WB(X_pool, body_node_index) == Isometry(1, X_pool[body_node_index])

\* The frames of a tree: for each body its body frame, and a frame fixed to
\* the body at a pose that reflects and shifts.
Frames ==
    {[body |-> body, X_BF |-> X_BF] :
         body \in 0..(num_bodies_ - 1), X_BF \in {Identity, Isometry(-1, 2)}}

world_frame == [body |-> world_index, X_BF |-> Identity]

\* Frame::CalcPoseInBodyFrame().
CalcPoseInBodyFrame(frame) == frame.X_BF

\* A relative transform that leaves out the inverse.
CalcRelativeTransform_NoInverse(X_pool, frame_A, frame_B) ==
    Compose(
        Compose(get_X_WB(X_pool, node_index(frame_A.body)),
                CalcPoseInBodyFrame(frame_A)),
        Compose(get_X_WB(X_pool, node_index(frame_B.body)),
                CalcPoseInBodyFrame(frame_B)))

\* CalcRelativeTransform(): X_AB = X_WA.inverse() * X_WB.
CalcRelativeTransform(X_pool, frame_A, frame_B) ==
    LET X_WA == Compose(get_X_WB(X_pool, node_index(frame_A.body)),
                        CalcPoseInBodyFrame(frame_A))
        X_WB == Compose(get_X_WB(X_pool, node_index(frame_B.body)),
                        CalcPoseInBodyFrame(frame_B))
    IN Compose(Inverse(X_WA), X_WB)

\* A matrix of the given number of rows; col[j][i] is the i-th block of
\* three rows of column j.
Matrix(rows, col) == [rows |-> rows, col |-> col]

\* A null pointer to a matrix.
NullMatrix == Matrix(Invalid, EmptyArray)

Rows(M) == M.rows

Cols(M) == Size(M.col)

\* A caller's matrix of 3 * blocks rows and the given number of columns,
\* holding values left by an earlier use.
StaleBlocks(g, blocks, columns) ==
    Matrix(3 * blocks,
           [j \in 0..(columns - 1) |-> StaleArray(g + 3 * j, blocks)])

\* A 3 x n matrix of points, one column per point of the sequence.
PointsMatrix(points) ==
    Matrix(3, [j \in 0..(Len(points) - 1) |-> [i \in {0} |-> points[j + 1]]])

\* The preconditions of CalcPointsPositions(), each a DRAKE_THROW_UNLESS.
PointsPositionsPreconditions(p_BQi, p_AQi) ==
    FirstFailure(
        <<Check(Rows(p_BQi) = 3, "DRAKE_THROW_UNLESS"),
          Check(p_AQi /= NullMatrix, "DRAKE_THROW_UNLESS"),
          Check(Rows(p_AQi) = 3, "DRAKE_THROW_UNLESS"),
          Check(Cols(p_AQi) = Cols(p_BQi), "DRAKE_THROW_UNLESS")>>, 1)

\* CalcPointsPositions(): p_AQi = X_AB * p_BQi, after the checks.
CalcPointsPositions(X_pool, frame_B, p_BQi, frame_A, p_AQi) ==
    LET failure == PointsPositionsPreconditions(p_BQi, p_AQi)
        X_AB == CalcRelativeTransform(X_pool, frame_A, frame_B)
    IN [thrown |-> failure,
        p_AQi |-> IF failure /= "none" THEN p_AQi
                  ELSE Matrix(3, [j \in DOMAIN p_BQi.col |->
                                     [i \in {0} |->
                                         Apply(X_AB, p_BQi.col[j][0])]])]

\* MultibodyTreeTopology::GetKinematicPathToWorld(): the nodes from the
\* world, first, down to the given node, last; one node per level.
RECURSIVE GetKinematicPathToWorld(_)
GetKinematicPathToWorld(from) ==
    IF topology_.body_nodes[from].parent_body_node = Invalid THEN <<from>>
    ELSE Append(GetKinematicPathToWorld(
                    topology_.body_nodes[from].parent_body_node), from)

\* The preconditions of CalcFrameJacobianExpressedInWorld(), each a
\* DRAKE_THROW_UNLESS: one of the two outputs is given, and each output
\* that is given has the size of the model.
FrameJacobianPreconditions(p_WQ_list, Jw_WFq, Jv_WFq) ==
    FirstFailure(
        <<Check(Jw_WFq /= NullMatrix \/ Jv_WFq /= NullMatrix,
                "DRAKE_THROW_UNLESS"),
          Check(Jw_WFq = NullMatrix \/ Rows(Jw_WFq) = 3,
                "DRAKE_THROW_UNLESS"),
          Check(Jw_WFq = NullMatrix \/ Cols(Jw_WFq) = num_velocities,
                "DRAKE_THROW_UNLESS"),
          Check(Jv_WFq = NullMatrix \/ Rows(Jv_WFq) = 3 * Cols(p_WQ_list),
                "DRAKE_THROW_UNLESS"),
          Check(Jv_WFq = NullMatrix \/ Cols(Jv_WFq) = num_velocities,
                "DRAKE_THROW_UNLESS")>>, 1)

\* A Jacobian whose entries are left as the caller handed them in.
JacobianSetZero_Missing(J) == J

\* if (J) J->setZero().
JacobianSetZero(J) ==
    IF J = NullMatrix THEN J
    ELSE Matrix(Rows(J),
                [j \in DOMAIN J.col |-> [i \in DOMAIN J.col[j] |-> 0]])

\* A start that zeroes an output before its size is checked.
FrameJacobianStart_ZeroFirst(failure, J) == JacobianSetZero(J)

\* An output of CalcFrameJacobianExpressedInWorld() when the loop starts:
\* setZero() comes after the checks, and is not reached if one has thrown.
FrameJacobianStart(failure, J) ==
    IF failure /= "none" THEN J ELSE JacobianSetZero(J)

\* The loop of CalcFrameJacobianExpressedInWorld() over the kinematic path,
\* from the node after the world on: the node's columns of Jw take the
\* angular rows of its H_PB_W, and those of Jv, for each point, the
\* translational rows plus the angular rows crossed with p_WQ - p_WBi.
RECURSIVE FrameJacobianPath(_, _, _, _, _, _)
FrameJacobianPath(path_to_world, ilevel, X_pool, H_PB_W_cache, p_WQ_list, st) ==
    IF ilevel > Len(path_to_world) THEN st
    ELSE LET node_topology == topology_.body_nodes[path_to_world[ilevel]]
             H_PB_W == GetJacobianFromArray(node_topology, H_PB_W_cache)
             p_WBi == get_X_WB(X_pool, node_topology.index).t
             Jw == IF st.Jw = NullMatrix THEN st.Jw
                   ELSE Matrix(
                            Rows(st.Jw),
                            [j \in DOMAIN st.Jw.col |->
                                IF j \in VelocitySlice(node_topology)
                                THEN [i \in {0} |-> H_PB_W[j]]
                                ELSE st.Jw.col[j]])
             Jv == IF st.Jv = NullMatrix THEN st.Jv
                   ELSE Matrix(
                            Rows(st.Jv),
                            [j \in DOMAIN st.Jv.col |->
                                IF j \in VelocitySlice(node_topology)
                                THEN [ipoint \in DOMAIN st.Jv.col[j] |->
                                         H_PB_W[j] + H_PB_W[j]
                                             * (p_WQ_list.col[ipoint][0]
                                                - p_WBi)]
                                ELSE st.Jv.col[j]])
         IN FrameJacobianPath(path_to_world, ilevel + 1, X_pool,
                              H_PB_W_cache, p_WQ_list, [Jw |-> Jw, Jv |-> Jv])

\* CalcFrameJacobianExpressedInWorld(): the checks, setZero() on the
\* outputs, the return for a frame of the world body, then the loop over
\* the path with a local Jacobian array that is filled first.
CalcFrameJacobianExpressedInWorld(X_pool, frame_F, p_WQ_list, Jw_WFq, Jv_WFq, g) ==
    LET failure == FrameJacobianPreconditions(p_WQ_list, Jw_WFq, Jv_WFq)
        zero == [Jw |-> FrameJacobianStart(failure, Jw_WFq),
                 Jv |-> FrameJacobianStart(failure, Jv_WFq)]
        jac == CalcAcrossNodeGeometricJacobianExpressedInWorld(
                   X_pool, StaleArray(g, num_velocities))
        st == FrameJacobianPath(
                  GetKinematicPathToWorld(node_index(frame_F.body)), 2,
                  X_pool, jac.cache, p_WQ_list, zero)
    IN IF failure /= "none"
       THEN [thrown |-> failure, Jw |-> zero.Jw, Jv |-> zero.Jv,
             trace |-> <<>>]
       ELSE IF frame_F.body = world_index
       THEN [thrown |-> "none", Jw |-> zero.Jw, Jv |-> zero.Jv,
             trace |-> <<>>]
       ELSE [thrown |-> "none", Jw |-> st.Jw, Jv |-> st.Jv,
             trace |-> jac.trace]

----------------------------------------------------------------------------
(* Operations on a finalized tree.  A_WB_array, F_BMo_W_array, tau_array   *)
(* and H are the caller-owned buffers handed to the last operation; an     *)
(* operation that takes none of a kind leaves that variable empty.         *)

\* The caller lets go of the output buffers of the last operation, as the
\* vector-returning CalcInverseDynamics() does with its temporaries.
ReleaseBuffers ==
    /\ status = "ok"
    /\ ~NoBuffersHeld
    /\ A_WB_array' = EmptyArray
    /\ F_BMo_W_array' = EmptyArray
    /\ tau_array' = EmptyArray
    /\ H' = EmptyArray
    /\ outputs' = NoOutputs
    /\ trace' = <<>>
    /\ last_call' = Call("ReleaseBuffers", "none", <<>>)
    /\ UNCHANGED <<tree_vars, context, pc, vc, status>>

\* The preconditions of a sweep that fills a cache: the cache is not null
\* and the context is the context of a multibody tree.
KinematicsCachePreconditions(cache, context_kind) ==
    FirstFailure(
        <<Check(cache /= NullPtr, "DRAKE_DEMAND"),
          ReferenceCast(context_kind)>>, 1)

\* The state values a context is created with.
ContextShapes == {"zeros", "ramp"}

\* A kinematics cache as allocated for the topology: the world's entry holds
\* the identity (zero) value, the others are not computed yet.
NewCache(g) ==
    [up_to_date |-> FALSE,
     pool |-> [n \in 0..(num_bodies - 1) |->
                  IF n = world_index THEN 0 ELSE g + n]]

\* A context for the finalized tree, with its state and its caches.
CreateContext(shape) ==
    /\ status = "ok"
    /\ topology_is_valid
    /\ ~context.valid
    /\ context' = [valid |-> TRUE,
                   q |-> MakeArray(shape, num_positions),
                   v |-> MakeArray(shape, num_velocities)]
    /\ pc' = NewCache(40)
    /\ vc' = NewCache(70)
    /\ last_call' = Call("CreateContext", "none", <<shape>>)
    /\ UNCHANGED <<tree_vars, buffer_vars, trace, status>>

CallCalcPositionKinematicsCache(context_kind) ==
    /\ status = "ok"
    /\ context.valid
    /\ NoBuffersHeld
    /\ LET failure == KinematicsCachePreconditions(pc.pool, context_kind)
           r == CalcPositionKinematicsCache(context.q, pc.pool)
       IN /\ pc' = IF failure = "none"
                   THEN [up_to_date |-> TRUE, pool |-> r.pool] ELSE pc
          /\ trace' = IF failure = "none" THEN r.trace ELSE <<>>
          /\ status' = StatusAfter(failure)
          /\ last_call' = Call("CalcPositionKinematicsCache",
                               ThrownBy(failure),
                               [pre |-> pc.pool,
                                context_kind |-> context_kind])
    /\ UNCHANGED <<tree_vars, context, vc, buffer_vars>>

CallCalcVelocityKinematicsCache(g, context_kind) ==
    /\ status = "ok"
    /\ context.valid
    /\ NoBuffersHeld
    /\ pc.up_to_date
    /\ LET failure == KinematicsCachePreconditions(vc.pool, context_kind)
           r == CalcVelocityKinematicsCache(pc.pool, context.v, vc.pool, g)
       IN /\ vc' = IF failure = "none"
                   THEN [up_to_date |-> TRUE, pool |-> r.pool] ELSE vc
          /\ trace' = IF failure = "none" THEN r.trace ELSE <<>>
          /\ status' = StatusAfter(failure)
          /\ last_call' = Call("CalcVelocityKinematicsCache",
                               ThrownBy(failure),
                               [pre |-> vc.pool,
                                context_kind |-> context_kind])
    /\ UNCHANGED <<tree_vars, context, pc, buffer_vars>>

\* CalcSpatialAccelerationsFromVdot() on a caller's array, and
\* CalcAccelerationKinematicsCache() on the pool of an acceleration cache.
CallCalcSpatialAccelerations(op, vdot_shape, pre, context_kind) ==
    /\ status = "ok"
    /\ NoBuffersHeld
    /\ context.valid
    /\ pc.up_to_date
    /\ vc.up_to_date
    /\ op = "CalcAccelerationKinematicsCache" =>
           (pre = NullPtr \/ Size(pre) = num_bodies)
    /\ LET known_vdot == MakeArray(vdot_shape, num_velocities)
           failure ==
               IF op = "CalcAccelerationKinematicsCache"
               THEN AccelerationKinematicsCachePreconditions(
                        known_vdot, pre, context_kind)
               ELSE SpatialAccelerationsPreconditions(
                        known_vdot, pre, context_kind)
           r == CalcSpatialAccelerationsFromVdot(
                    pc.pool, vc.pool, known_vdot, pre)
       IN /\ A_WB_array' = IF failure = "none" THEN r.A ELSE pre
          /\ trace' = IF failure = "none" THEN r.trace ELSE <<>>
          /\ status' = StatusAfter(failure)
          /\ last_call' = Call(op, ThrownBy(failure),
                               [known_vdot |-> known_vdot, pre |-> pre,
                                context_kind |-> context_kind])
    /\ F_BMo_W_array' = EmptyArray
    /\ tau_array' = EmptyArray
    /\ H' = EmptyArray
    /\ outputs' = NoOutputs
    /\ UNCHANGED <<tree_vars, context, pc, vc>>

\* What can be wrong with the output arrays a caller hands to the
\* buffer-filling CalcInverseDynamics().
OutputFaults ==
    {"none", "A_null", "A_size", "F_null", "F_size", "tau_null", "tau_size"}

\* An output array of a caller: null, of a wrong size, or of the size n.
OutputArray(g, n, is_null, wrong_size) ==
    IF is_null THEN NullPtr
    ELSE IF wrong_size THEN StaleArray(g, n + 1)
    ELSE StaleArray(g, n)

\* The buffer-filling CalcInverseDynamics().  With aliased the caller passes
\* its output arrays, holding the applied forces, as the applied arrays too.
CallCalcInverseDynamics(vdot_shape, F_shape, tau_shape, aliased, g, fault, context_kind) ==
    /\ status = "ok"
    /\ NoBuffersHeld
    /\ context.valid
    /\ pc.up_to_date
    /\ vc.up_to_date
    /\ aliased => (/\ F_shape \in {"zeros", "ramp"}
                   /\ tau_shape = F_shape
                   /\ fault = "none")
    /\ LET known_vdot == MakeArray(vdot_shape, num_velocities)
           Fapplied == MakeArray(F_shape, num_bodies)
           tau_applied == MakeArray(tau_shape, num_velocities)
           pre == [A |-> OutputArray(g, num_bodies, fault = "A_null",
                                     fault = "A_size"),
                   F |-> IF aliased THEN Fapplied
                         ELSE OutputArray(g + 1, num_bodies,
                                          fault = "F_null", fault = "F_size"),
                   tau |-> IF aliased THEN tau_applied
                           ELSE OutputArray(g + 2, num_velocities,
                                            fault = "tau_null",
                                            fault = "tau_size")]
           failure == InverseDynamicsPreconditions(
                          known_vdot, Size(Fapplied), Size(tau_applied),
                          pre.A, pre.F, pre.tau, context_kind)
           r == CalcInverseDynamics(
                    pc.pool, vc.pool, known_vdot, Fapplied, tau_applied,
                    aliased, pre.A, pre.F, pre.tau)
           acc == CalcSpatialAccelerationsFromVdot(
                      pc.pool, vc.pool, known_vdot, pre.A)
           args == [known_vdot |-> known_vdot, Fapplied |-> Fapplied,
                    tau_applied |-> tau_applied, aliased |-> aliased,
                    pre |-> pre, context_kind |-> context_kind]
       IN IF failure = "none"
          THEN /\ A_WB_array' = r.A
               /\ F_BMo_W_array' = r.F
               /\ tau_array' = r.tau
               /\ trace' = r.trace
               /\ status' = "ok"
               /\ last_call' = Call("CalcInverseDynamics", "none", args)
          ELSE IF failure = "null_dereference"
          THEN \E outcome \in NullDereferenceOutcomes :
                  /\ outcome = "fault_after_accelerations" =>
                         context_kind = "MultibodyTreeContext"
                  /\ A_WB_array' = IF outcome = "fault_after_accelerations"
                                   THEN acc.A ELSE pre.A
                  /\ F_BMo_W_array' = pre.F
                  /\ tau_array' = pre.tau
                  /\ trace' = IF outcome = "fault_after_accelerations"
                              THEN acc.trace ELSE <<>>
                  /\ status' = IF outcome = "abort" THEN "aborted"
                               ELSE "crashed"
                  /\ last_call' = Call("CalcInverseDynamics", "none", args)
          ELSE /\ A_WB_array' = pre.A
               /\ F_BMo_W_array' = pre.F
               /\ tau_array' = pre.tau
               /\ trace' = <<>>
               /\ status' = StatusAfter(failure)
               /\ last_call' = Call("CalcInverseDynamics",
                                    ThrownBy(failure), args)
    /\ H' = EmptyArray
    /\ outputs' = NoOutputs
    /\ UNCHANGED <<tree_vars, context, pc, vc>>

\* CalcMassMatrixViaInverseDynamics() on a caller's matrix of
\* num_velocities() rows and the given number of columns.
CallCalcMassMatrixViaInverseDynamics(g, cols) ==
    /\ status = "ok"
    /\ NoBuffersHeld
    /\ context.valid
    /\ pc.up_to_date
    /\ LET pre == StaleMatrixOfCols(g, cols)
           r == CalcMassMatrixViaInverseDynamics(pc.pool, pre, g)
       IN /\ H' = r.H
          /\ trace' = r.trace
          /\ status' = IF r.ok THEN "ok" ELSE "aborted"
          /\ last_call' = Call("CalcMassMatrixViaInverseDynamics", "none",
                               [g |-> g, pre |-> pre])
    /\ A_WB_array' = EmptyArray
    /\ F_BMo_W_array' = EmptyArray
    /\ tau_array' = EmptyArray
    /\ outputs' = NoOutputs
    /\ UNCHANGED <<tree_vars, context, pc, vc>>

\* CalcAllBodyPosesInWorld() on a caller's vector.
CallCalcAllBodyPosesInWorld(pre) ==
    /\ status = "ok"
    /\ NoBuffersHeld
    /\ context.valid
    /\ pc.up_to_date
    /\ LET r == CalcAllBodyPosesInWorld(pre, pc.pool)
       IN /\ outputs' = [X_WB |-> r.X_WB]
          /\ last_call' = Call("CalcAllBodyPosesInWorld", r.thrown,
                               [pre |-> pre])
    /\ trace' = <<>>
    /\ UNCHANGED <<tree_vars, context, pc, vc, A_WB_array, F_BMo_W_array,
                   tau_array, H, status>>

\* CalcAllBodySpatialVelocitiesInWorld() on a caller's vector.
CallCalcAllBodySpatialVelocitiesInWorld(pre) ==
    /\ status = "ok"
    /\ NoBuffersHeld
    /\ context.valid
    /\ vc.up_to_date
    /\ LET r == CalcAllBodySpatialVelocitiesInWorld(pre, vc.pool)
       IN /\ outputs' = [V_WB |-> r.V_WB]
          /\ last_call' = Call("CalcAllBodySpatialVelocitiesInWorld",
                               r.thrown, [pre |-> pre])
    /\ trace' = <<>>
    /\ UNCHANGED <<tree_vars, context, pc, vc, A_WB_array, F_BMo_W_array,
                   tau_array, H, status>>

\* CalcBiasTerm() on a caller's vector.
CallCalcBiasTerm(g, pre) ==
    /\ status = "ok"
    /\ NoBuffersHeld
    /\ context.valid
    /\ pc.up_to_date
    /\ vc.up_to_date
    /\ LET r == CalcBiasTerm(pc.pool, vc.pool, pre, g)
       IN /\ outputs' = [Cv |-> r.Cv]
          /\ trace' = r.trace
          /\ status' = IF r.ok THEN "ok" ELSE "aborted"
          /\ last_call' = Call("CalcBiasTerm", "none", [pre |-> pre])
    /\ UNCHANGED <<tree_vars, context, pc, vc, A_WB_array, F_BMo_W_array,
                   tau_array, H>>

\* An articulated-body inertia sweep that keeps its result in the body nodes
\* of the tree.
CallCalcArticulatedBodyInertiaCache_StoresInNodes(g, context_kind) ==
    /\ status = "ok"
    /\ NoBuffersHeld
    /\ context.valid
    /\ pc.up_to_date
    /\ LET pre == StaleArray(g, num_bodies)
           r == CalcArticulatedBodyInertiaCache(pc.pool, pre, g)
       IN /\ outputs' = [abc |-> r.abc]
          /\ body_nodes_' =
                 [n \in DOMAIN body_nodes_ |->
                     [body_nodes_[n] EXCEPT !.index = r.abc[n]]]
          /\ trace' = r.trace
          /\ last_call' = Call("CalcArticulatedBodyInertiaCache", "none",
                               [pre |-> pre, context_kind |-> context_kind])
    /\ UNCHANGED <<num_bodies_, owned_joints_, owned_mobilizers_, topology_,
                   body_node_levels_, model_instances_, context, pc, vc,
                   A_WB_array, F_BMo_W_array, tau_array, H, status>>

\* CalcArticulatedBodyInertiaCache() on a caller's cache.
CallCalcArticulatedBodyInertiaCache(g, context_kind) ==
    /\ status = "ok"
    /\ NoBuffersHeld
    /\ context.valid
    /\ pc.up_to_date
    /\ LET pre == StaleArray(g, num_bodies)
           failure == KinematicsCachePreconditions(pre, context_kind)
           r == CalcArticulatedBodyInertiaCache(pc.pool, pre, g)
       IN /\ outputs' = [abc |-> IF failure = "none" THEN r.abc ELSE pre]
          /\ trace' = IF failure = "none" THEN r.trace ELSE <<>>
          /\ status' = StatusAfter(failure)
          /\ last_call' = Call("CalcArticulatedBodyInertiaCache",
                               ThrownBy(failure),
                               [pre |-> pre, context_kind |-> context_kind])
    /\ UNCHANGED <<tree_vars, context, pc, vc, A_WB_array, F_BMo_W_array,
                   tau_array, H>>

\* CalcRelativeTransform() of two frames.
CallCalcRelativeTransform(frame_A, frame_B) ==
    /\ status = "ok"
    /\ NoBuffersHeld
    /\ context.valid
    /\ pc.up_to_date
    /\ outputs' = [X_AB |-> CalcRelativeTransform(pc.pool, frame_A, frame_B)]
    /\ last_call' = Call("CalcRelativeTransform", "none",
                         [frame_A |-> frame_A, frame_B |-> frame_B])
    /\ trace' = <<>>
    /\ UNCHANGED <<tree_vars, context, pc, vc, A_WB_array, F_BMo_W_array,
                   tau_array, H, status>>

\* CalcPointsPositions() on a caller's output matrix.
CallCalcPointsPositions(frame_B, p_BQi, frame_A, pre) ==
    /\ status = "ok"
    /\ NoBuffersHeld
    /\ context.valid
    /\ pc.up_to_date
    /\ LET r == CalcPointsPositions(pc.pool, frame_B, p_BQi, frame_A, pre)
       IN /\ outputs' = [p_AQi |-> r.p_AQi]
          /\ last_call' = Call("CalcPointsPositions", r.thrown,
                               [frame_B |-> frame_B, p_BQi |-> p_BQi,
                                frame_A |-> frame_A, pre |-> pre])
    /\ trace' = <<>>
    /\ UNCHANGED <<tree_vars, context, pc, vc, A_WB_array, F_BMo_W_array,
                   tau_array, H, status>>

\* CalcFrameJacobianExpressedInWorld() on a caller's output matrices.
CallCalcFrameJacobianExpressedInWorld(frame_F, p_WQ_list, Jw_WFq, Jv_WFq, g) ==
    /\ status = "ok"
    /\ NoBuffersHeld
    /\ context.valid
    /\ pc.up_to_date
    /\ LET r == CalcFrameJacobianExpressedInWorld(
                    pc.pool, frame_F, p_WQ_list, Jw_WFq, Jv_WFq, g)
       IN /\ outputs' = [Jw |-> r.Jw, Jv |-> r.Jv]
          /\ trace' = r.trace
          /\ last_call' = Call("CalcFrameJacobianExpressedInWorld",
                               r.thrown,
                               [frame_F |-> frame_F, p_WQ_list |-> p_WQ_list,
                                pre |-> [Jw |-> Jw_WFq, Jv |-> Jv_WFq]])
    /\ UNCHANGED <<tree_vars, context, pc, vc, A_WB_array, F_BMo_W_array,
                   tau_array, H, status>>

\* The message of the std::runtime_error of
\* get_mutable_multibody_state_vector().
NotCompatibleMessage ==
    "The context provided is not compatible with a multibody model."

\* get_multibody_state_vector(): the cast to a reference.
get_multibody_state_vector(context_kind) ==
    LET failure == FirstFailure(<<ReferenceCast(context_kind)>>, 1)
    IN Call("get_multibody_state_vector", ThrownBy(failure),
            [context_kind |-> context_kind, context_null |-> FALSE])

\* get_mutable_multibody_state_vector(): DRAKE_DEMAND(context != nullptr),
\* then the cast to a pointer, and the std::runtime_error if it gives null.
get_mutable_multibody_state_vector(context_null, context_kind) ==
    LET failure ==
            FirstFailure(
                <<Check(~context_null, "DRAKE_DEMAND"),
                  Check(context_kind = "MultibodyTreeContext",
                        "runtime_error")>>, 1)
    IN Throw("get_mutable_multibody_state_vector", ThrownBy(failure),
             IF failure = "runtime_error" THEN NotCompatibleMessage ELSE "",
             [context_kind |-> context_kind, context_null |-> context_null])

\* The two accessors of the state vector, on a caller's context.  They
\* return a reference to the state and change nothing.
CallGetMultibodyStateVector(mutable, context_null, context_kind) ==
    /\ status = "ok"
    /\ NoBuffersHeld
    /\ context.valid
    /\ context_null => mutable
    /\ last_call' =
           IF mutable
           THEN get_mutable_multibody_state_vector(context_null, context_kind)
           ELSE get_multibody_state_vector(context_kind)
    /\ status' = IF mutable /\ context_null THEN "aborted" ELSE "ok"
    /\ trace' = <<>>
    /\ UNCHANGED <<tree_vars, context, pc, vc, buffer_vars>>

\* Body::name().
BodyName(body) == "body" \o ToString(body)

\* A message that names the helper that throws, not the operation called.
NotFinalizedMessage_NamesHelper(source_method) ==
    "Pre-finalize calls to 'ThrowIfNotFinalized()' are not allowed; "
        \o "you must call Finalize() first."

\* ThrowIfNotFinalized(source_method): the message of its std::logic_error.
NotFinalizedMessage(source_method) ==
    "Pre-finalize calls to '" \o source_method
        \o "()' are not allowed; you must call Finalize() first."

\* GetFreeBodyMobilizerOrThrow(): the tree is finalized; the body is not the
\* world; the inboard mobilizer of the body is a QuaternionFloatingMobilizer,
\* or a std::logic_error names the body.
GetFreeBodyMobilizerOrThrow(body, source_method) ==
    IF ~topology_is_valid
    THEN [failure |-> "logic_error",
          what |-> NotFinalizedMessage(source_method)]
    ELSE IF body = world_index
    THEN [failure |-> "DRAKE_DEMAND", what |-> ""]
    ELSE IF owned_mobilizers_[
                InboardMobilizer(owned_mobilizers_, body) + 1].type /= "free"
    THEN [failure |-> "logic_error",
          what |-> "Body '" \o BodyName(body)
                       \o "' is not a free floating body."]
    ELSE [failure |-> "none", what |-> ""]

\* A free mobilizer that writes before the tree has looked up the body's
\* mobilizer.
SetFreeBodyState_BeforeLookup(failure, vector, body, value) ==
    [k \in DOMAIN vector |->
        IF k = Size(vector) - 1 THEN value ELSE vector[k]]

\* QuaternionFloatingMobilizer::set_quaternion() and set_position() on the
\* positions, set_angular_velocity() and set_translational_velocity() on the
\* velocities: the mobilizer's slice of the vector takes the value.  They
\* are reached only if GetFreeBodyMobilizerOrThrow() returned.
SetFreeBodyState(failure, vector, body, value) ==
    IF failure /= "none" THEN vector
    ELSE LET node_topology == topology_.body_nodes[node_index(body)]
             slice == IF Size(vector) = num_positions
                      THEN PositionSlice(node_topology)
                      ELSE VelocitySlice(node_topology)
         IN [k \in DOMAIN vector |->
                IF k \in slice THEN value ELSE vector[k]]

\* What passing a null context to the three-argument
\* SetFreeBodyPoseOrThrow() / SetFreeBodySpatialVelocityOrThrow() can do:
\* context->get_mutable_state() faults; or the call goes on with a null
\* state, and faults at the first write unless the lookup of the mobilizer
\* fails first.
NullContextOutcomes == {"fault", "goes_on"}

\* The call reaches the writes of the free mobilizer of the body.
SetsFreeBody(body, context_null) ==
    /\ ~context_null
    /\ GetFreeBodyMobilizerOrThrow(body, "").failure = "none"

\* The context holds the state it was created with, all zeros: callers set
\* the state of a free body once, on such a context.
FreshContext ==
    /\ context.q = Zero(num_positions)
    /\ context.v = Zero(num_velocities)

\* SetFreeBodyPoseOrThrow(body, X_WB, context) and
\* SetFreeBodySpatialVelocityOrThrow(body, V_WB, context).
CallSetFreeBody(op, body, value, context_null) ==
    /\ status = "ok"
    /\ NoBuffersHeld
    /\ topology_is_valid => context.valid
    /\ SetsFreeBody(body, context_null) => FreshContext
    /\ LET r == GetFreeBodyMobilizerOrThrow(body, op)
           args == [body |-> body, value |-> value,
                    context_null |-> context_null, pre |-> context]
           pose == op = "SetFreeBodyPoseOrThrow"
       IN IF ~topology_is_valid
          THEN /\ last_call' = Throw(op, "logic_error",
                                     NotFinalizedMessage(op), args)
               /\ UNCHANGED <<context, pc, vc, status>>
          ELSE IF context_null
          THEN \E outcome \in NullContextOutcomes :
                  /\ status' = IF outcome = "goes_on"
                                  /\ r.failure /= "none"
                               THEN StatusAfter(r.failure) ELSE "crashed"
                  /\ last_call' =
                         IF outcome = "goes_on" /\ r.failure /= "none"
                         THEN Throw(op, ThrownBy(r.failure), r.what, args)
                         ELSE Call(op, "none", args)
                  /\ UNCHANGED <<context, pc, vc>>
          ELSE /\ context' =
                      IF pose
                      THEN [context EXCEPT !.q = SetFreeBodyState(
                                r.failure, context.q, body, value)]
                      ELSE [context EXCEPT !.v = SetFreeBodyState(
                                r.failure, context.v, body, value)]
               /\ pc' = IF r.failure = "none" /\ pose
                        THEN [pc EXCEPT !.up_to_date = FALSE] ELSE pc
               /\ vc' = IF r.failure = "none"
                        THEN [vc EXCEPT !.up_to_date = FALSE] ELSE vc
               /\ status' = StatusAfter(r.failure)
               /\ last_call' = Throw(op, ThrownBy(r.failure), r.what, args)
    /\ trace' = <<>>
    /\ UNCHANGED <<tree_vars, buffer_vars>>

\* GetFreeBodyMobilizerOrThrow() called by a user of the tree.  It takes no
\* context; the callers modelled call it before they create one.
CallGetFreeBodyMobilizerOrThrow(body) ==
    /\ status = "ok"
    /\ NoBuffersHeld
    /\ ~context.valid
    /\ LET r == GetFreeBodyMobilizerOrThrow(
                    body, "GetFreeBodyMobilizerOrThrow")
       IN /\ status' = StatusAfter(r.failure)
          /\ last_call' = Throw("GetFreeBodyMobilizerOrThrow",
                                ThrownBy(r.failure), r.what, [body |-> body])
    /\ trace' = <<>>
    /\ UNCHANGED <<tree_vars, context, pc, vc, buffer_vars>>

\* EvalBodyPoseInWorld() and EvalBodySpatialVelocityInWorld(): after the
\* check that the tree is finalized, the body's entry of the evaluated
\* cache.  Every body handed in is a body of this tree, so
\* HasThisParentTreeOrThrow() passes.
CallEvalBodyInWorld(op, body) ==
    /\ status = "ok"
    /\ NoBuffersHeld
    /\ topology_is_valid =>
           /\ context.valid
           /\ pc.up_to_date
           /\ op = "EvalBodySpatialVelocityInWorld" => vc.up_to_date
    /\ IF ~topology_is_valid
       THEN /\ last_call' = Throw(op, "logic_error", NotFinalizedMessage(op),
                                  [body |-> body])
            /\ outputs' = outputs
       ELSE /\ last_call' = Call(op, "none", [body |-> body])
            /\ outputs' =
                   IF op = "EvalBodyPoseInWorld"
                   THEN [X_WB_body |-> pc.pool[node_index(body)]]
                   ELSE [V_WB_body |-> vc.pool[node_index(body)]]
    /\ trace' = <<>>
    /\ UNCHANGED <<tree_vars, context, pc, vc, A_WB_array, F_BMo_W_array,
                   tau_array, H, status>>

\* CalcGravityGeneralizedForces(): after the check that the tree is
\* finalized, VectorX<T>::Zero(num_velocities()) for a tree with no gravity
\* field; no gravity field element is added to the trees modelled.
CallCalcGravityGeneralizedForces ==
    /\ status = "ok"
    /\ NoBuffersHeld
    /\ topology_is_valid => (context.valid /\ FreshContext)
    /\ IF ~topology_is_valid
       THEN /\ last_call' = Throw("CalcGravityGeneralizedForces",
                                  "logic_error",
                                  NotFinalizedMessage(
                                      "CalcGravityGeneralizedForces"), <<>>)
            /\ outputs' = outputs
       ELSE /\ last_call' = Call("CalcGravityGeneralizedForces", "none",
                                 <<>>)
            /\ outputs' = [tau_g |-> Zero(num_velocities)]
    /\ trace' = <<>>
    /\ UNCHANGED <<tree_vars, context, pc, vc, A_WB_array, F_BMo_W_array,
                   tau_array, H, status>>

\* get_joint(joint_index), for the zero-based index of a joint.
get_joint(joint_index) == owned_joints_[joint_index + 1]

\* Joint::name().
JointName(joint_index) == "joint" \o ToString(joint_index)

\* Joint::position_start(), num_positions(), velocity_start() and
\* num_velocities(): those of the mobilizer that implements the joint, the
\* inboard mobilizer of the joint's child body.
JointSlices(joint_index) ==
    topology_.body_nodes[node_index(get_joint(joint_index).child)]

\* The first index of the list that was selected already, or Invalid: the
\* loop over the list that inserts into already_selected_joints.
RECURSIVE FirstRepeatedJoint(_, _)
FirstRepeatedJoint(user_to_joint_index_map, i) ==
    IF i > Len(user_to_joint_index_map) THEN Invalid
    ELSE IF \E k \in 1..(i - 1) :
                user_to_joint_index_map[k] = user_to_joint_index_map[i]
    THEN user_to_joint_index_map[i]
    ELSE FirstRepeatedJoint(user_to_joint_index_map, i + 1)

\* The sizes of the selected positions and of the selected velocities.
RECURSIVE NumSelected(_, _)
NumSelected(user_to_joint_index_map, i) ==
    IF i > Len(user_to_joint_index_map)
    THEN [positions |-> 0, velocities |-> 0]
    ELSE LET joint == JointSlices(user_to_joint_index_map[i])
             rest == NumSelected(user_to_joint_index_map, i + 1)
         IN [positions |-> joint.num_positions + rest.positions,
             velocities |-> joint.num_velocities + rest.velocities]

\* A matrix of coefficients, kept row by row.
ZeroMatrix(rows, columns) ==
    [rows |-> rows, cols |-> columns,
     coeff |-> [r \in 0..(rows - 1) |-> [c \in 0..(columns - 1) |-> 0]]]

\* Sx.block(row, col, n, n) = Identity(n, n).
SetIdentityBlock(Sx, row, col, n) ==
    [Sx EXCEPT !.coeff =
        [r \in DOMAIN Sx.coeff |->
            [c \in DOMAIN Sx.coeff[r] |->
                IF r \in row..(row + n - 1) /\ c \in col..(col + n - 1)
                THEN (IF r - row = c - col THEN 1 ELSE 0)
                ELSE Sx.coeff[r][c]]]]

\* A column of the velocities that leaves out the positions before them.
VelocityColumn_NoOffset(vel_start) == vel_start

\* The column of the state x = [q; v] of the velocity vel_start:
\* nq + vel_start.
VelocityColumn(vel_start) == num_positions + vel_start

\* The loop of MakeStateSelectorMatrix() that places the identity blocks of
\* the joints, in the order of the list.
RECURSIVE StateSelectorBlocks(_, _, _, _, _)
StateSelectorBlocks(user_to_joint_index_map, i, selected_positions_index, selected_velocities_index, Sx) ==
    IF i > Len(user_to_joint_index_map) THEN Sx
    ELSE LET joint == JointSlices(user_to_joint_index_map[i])
         IN StateSelectorBlocks(
                user_to_joint_index_map, i + 1,
                selected_positions_index + joint.num_positions,
                selected_velocities_index + joint.num_velocities,
                SetIdentityBlock(
                    SetIdentityBlock(Sx, selected_positions_index,
                                     joint.position_start,
                                     joint.num_positions),
                    selected_velocities_index,
                    VelocityColumn(joint.velocity_start),
                    joint.num_velocities))

\* MakeStateSelectorMatrix(): the check that the tree is finalized, the
\* check that no joint is repeated, then the matrix.
MakeStateSelectorMatrix(user_to_joint_index_map) ==
    LET repeated == FirstRepeatedJoint(user_to_joint_index_map, 1)
        selected == NumSelected(user_to_joint_index_map, 1)
    IN IF ~topology_is_valid
       THEN [failure |-> "logic_error",
             what |-> NotFinalizedMessage("MakeStateSelectorMatrix"),
             Sx |-> EmptyArray]
       ELSE IF repeated /= Invalid
       THEN [failure |-> "logic_error",
             what |-> "Joint named '" \o JointName(repeated)
                          \o "' is repeated multiple times.",
             Sx |-> EmptyArray]
       ELSE [failure |-> "none", what |-> "",
             Sx |-> StateSelectorBlocks(
                        user_to_joint_index_map, 1, 0, selected.positions,
                        ZeroMatrix(selected.positions + selected.velocities,
                                   num_positions + num_velocities))]

\* MakeStateSelectorMatrix() called by a user of the tree.  It takes no
\* context; the callers modelled call it before they create one.
CallMakeStateSelectorMatrix(user_to_joint_index_map) ==
    /\ status = "ok"
    /\ NoBuffersHeld
    /\ ~context.valid
    /\ LET r == MakeStateSelectorMatrix(user_to_joint_index_map)
       IN /\ last_call' = Throw("MakeStateSelectorMatrix", r.failure, r.what,
                                [user_to_joint_index_map |->
                                     user_to_joint_index_map])
          /\ outputs' = IF r.failure = "none" THEN [Sx |-> r.Sx] ELSE outputs
    /\ trace' = <<>>
    /\ UNCHANGED <<tree_vars, context, pc, vc, A_WB_array, F_BMo_W_array,
                   tau_array, H, status>>

\* joint_to_actuator_index of MakeActuatorSelectorMatrix(): no actuator is
\* added to the trees modelled, so every entry is left invalid.
joint_to_actuator_index(joint_index) == Invalid

\* MakeActuatorSelectorMatrix() on a list of joints: the check that the tree
\* is finalized, then the first joint of the list that has no actuator
\* throws; an empty list gives the matrix of num_actuated_dofs() rows and
\* no columns.
MakeActuatorSelectorMatrix(user_to_joint_index_map) ==
    IF ~topology_is_valid
    THEN [failure |-> "logic_error",
          what |-> NotFinalizedMessage("MakeActuatorSelectorMatrix"),
          Su |-> EmptyArray]
    ELSE IF /\ user_to_joint_index_map /= <<>>
            /\ joint_to_actuator_index(user_to_joint_index_map[1]) = Invalid
    THEN [failure |-> "logic_error",
          what |-> "Joint '" \o JointName(user_to_joint_index_map[1])
                       \o "' does not have an actuator.",
          Su |-> EmptyArray]
    ELSE [failure |-> "none", what |-> "", Su |-> ZeroMatrix(0, 0)]

\* MakeActuatorSelectorMatrix() called by a user of the tree.
CallMakeActuatorSelectorMatrix(user_to_joint_index_map) ==
    /\ status = "ok"
    /\ NoBuffersHeld
    /\ ~context.valid
    /\ LET r == MakeActuatorSelectorMatrix(user_to_joint_index_map)
       IN /\ last_call' = Throw("MakeActuatorSelectorMatrix", r.failure,
                                r.what,
                                [user_to_joint_index_map |->
                                     user_to_joint_index_map])
          /\ outputs' = IF r.failure = "none" THEN [Su |-> r.Su] ELSE outputs
    /\ trace' = <<>>
    /\ UNCHANGED <<tree_vars, context, pc, vc, A_WB_array, F_BMo_W_array,
                   tau_array, H, status>>

\* The lists of joints a caller selects: up to MaxSelected joints of the
\* tree, in any order, repeated or not.
JointLists ==
    UNION {[1..n -> 0..(Len(owned_joints_) - 1)] : n \in 0..MaxSelected}

\* The values a caller sets a free body's pose and spatial velocity to.
FreeBodyValues == {3}

Bodies == 0..(num_bodies_ - 1)

\* The applied arrays the buffer-filling CalcInverseDynamics() is called
\* with: the shape of the applied spatial forces, the shape of the applied
\* generalized forces, whether they are the output arrays, and what the
\* output arrays hold.
InverseDynamicsInputs ==
    {<<"empty", "empty", FALSE, 40>>,
     <<"zeros", "zeros", FALSE, 70>>,
     <<"ramp", "ramp", FALSE, 40>>,
     <<"empty", "ramp", FALSE, 70>>,
     <<"ramp", "empty", FALSE, 70>>,
     <<"long", "empty", FALSE, 40>>,
     <<"empty", "long", FALSE, 40>>,
     <<"zeros", "zeros", TRUE, 40>>,
     <<"ramp", "ramp", TRUE, 70>>}

\* The cache contents and the context CalcVelocityKinematicsCache() and
\* CalcArticulatedBodyInertiaCache() are called with.
VelocityKinematicsInputs ==
    {<<g, "MultibodyTreeContext">> : g \in Stale}
        \cup {<<CHOOSE g \in Stale : TRUE, "LeafContext">>}

\* Calls of the acceleration operations with an argument that fails a
\* precondition: the accelerations, the output array, the context.
SpatialAccelerationsFaults ==
    LET g == CHOOSE x \in Stale : TRUE
    IN {<<"long", StaleArray(g, num_bodies), "MultibodyTreeContext">>,
        <<"zeros", StaleArray(g, num_bodies + 1), "MultibodyTreeContext">>,
        <<"zeros", NullPtr, "MultibodyTreeContext">>,
        <<"zeros", StaleArray(g, num_bodies), "LeafContext">>,
        <<"long", StaleArray(g, num_bodies), "LeafContext">>}

\* Calls of the buffer-filling CalcInverseDynamics() with an argument that
\* fails a precondition: the accelerations, the output arrays, the context.
InverseDynamicsFaults ==
    {<<"zeros", fault, "MultibodyTreeContext">> :
         fault \in OutputFaults \ {"none"}}
        \cup {<<"long", "none", "MultibodyTreeContext">>,
              <<"zeros", "none", "LeafContext">>,
              <<"zeros", "tau_null", "LeafContext">>,
              <<"long", "tau_null", "MultibodyTreeContext">>}

\* What CalcPointsPositions() is called with: frame_B, the points, frame_A
\* and the output matrix.  Two points between any two frames with an output
\* of the right size; and outputs that fail a precondition.
PointsPositionsInputs ==
    LET g == CHOOSE x \in Stale : TRUE
    IN {<<frame_B, <<1, 6>>, frame_A, StaleBlocks(g, 1, 2)>> :
            frame_B \in Frames, frame_A \in Frames}
       \cup {<<world_frame, <<4>>, world_frame, pre>> :
                 pre \in {StaleBlocks(g, 1, 2), StaleBlocks(g, 2, 1),
                          NullMatrix}}

\* What CalcFrameJacobianExpressedInWorld() is called with: the body of the
\* frame and the two output matrices, for two points.  Both outputs or one
\* of them for every body; and outputs that fail a precondition.
FrameJacobianInputs ==
    LET g == CHOOSE x \in Stale : TRUE
        Jw == StaleBlocks(g, 1, num_velocities)
        Jv == StaleBlocks(g + 1, 2, num_velocities)
    IN {<<body, m[1], m[2]>> :
            body \in 0..(num_bodies_ - 1),
            m \in {<<Jw, Jv>>, <<NullMatrix, Jv>>, <<Jw, NullMatrix>>}}
       \cup {<<num_bodies_ - 1, m[1], m[2]>> :
                 m \in {<<NullMatrix, NullMatrix>>,
                        <<StaleBlocks(g, 2, num_velocities), Jv>>,
                        <<StaleBlocks(g, 1, num_velocities + 1), Jv>>,
                        <<Jw, StaleBlocks(g + 1, 1, num_velocities)>>,
                        <<Jw, StaleBlocks(g + 1, 2, num_velocities + 1)>>}}

Next ==
    \/ AddRigidBody
    \/ \E parent \in Bodies, child \in Bodies, type \in JointTypes :
           AddJoint(parent, child, type)
    \/ Finalize
    \/ CallFinalizeTopology
    \/ \E shape \in ContextShapes : CreateContext(shape)
    \/ \E mutable \in BOOLEAN, context_null \in BOOLEAN,
          context_kind \in ContextKinds :
           CallGetMultibodyStateVector(mutable, context_null, context_kind)
    \/ \E op \in {"SetFreeBodyPoseOrThrow",
                  "SetFreeBodySpatialVelocityOrThrow"},
          body \in Bodies, value \in FreeBodyValues,
          context_null \in BOOLEAN :
           CallSetFreeBody(op, body, value, context_null)
    \/ \E context_kind \in ContextKinds :
           CallCalcPositionKinematicsCache(context_kind)
    \/ \E frame_A \in Frames, frame_B \in Frames :
           CallCalcRelativeTransform(frame_A, frame_B)
    \/ \E m \in FrameJacobianInputs :
           CallCalcFrameJacobianExpressedInWorld(
               [body |-> m[1], X_BF |-> Identity], PointsMatrix(<<1, 6>>),
               m[2], m[3], CHOOSE g \in Stale : TRUE)
    \/ \E m \in PointsPositionsInputs :
           CallCalcPointsPositions(m[1], PointsMatrix(m[2]), m[3], m[4])
    \/ \E m \in VelocityKinematicsInputs :
           CallCalcVelocityKinematicsCache(m[1], m[2])
    \/ \E op \in {"CalcSpatialAccelerationsFromVdot",
                  "CalcAccelerationKinematicsCache"},
          shape \in {"zeros", "ramp"}, g \in Stale :
           CallCalcSpatialAccelerations(op, shape, StaleArray(g, num_bodies),
                                        "MultibodyTreeContext")
    \/ \E op \in {"CalcSpatialAccelerationsFromVdot",
                  "CalcAccelerationKinematicsCache"},
          m \in SpatialAccelerationsFaults :
           CallCalcSpatialAccelerations(op, m[1], m[2], m[3])
    \/ \E vdot_shape \in {"zeros", "ramp"}, m \in InverseDynamicsInputs :
           CallCalcInverseDynamics(vdot_shape, m[1], m[2], m[3], m[4],
                                   "none", "MultibodyTreeContext")
    \/ \E m \in InverseDynamicsFaults :
           CallCalcInverseDynamics(m[1], "empty", "empty", FALSE,
                                   CHOOSE g \in Stale : TRUE, m[2], m[3])
    \/ \E g \in Stale, cols \in {num_velocities, num_velocities + 1} :
           CallCalcMassMatrixViaInverseDynamics(g, cols)
    \/ \E g \in Stale : \E pre \in OutputVectors(g, num_bodies) :
           CallCalcAllBodyPosesInWorld(pre)
    \/ \E g \in Stale : \E pre \in OutputVectors(g, num_bodies) :
           CallCalcAllBodySpatialVelocitiesInWorld(pre)
    \/ \E g \in Stale : \E pre \in OutputVectors(g, num_velocities) :
           CallCalcBiasTerm(g, pre)
    \/ \E m \in VelocityKinematicsInputs :
           CallCalcArticulatedBodyInertiaCache(m[1], m[2])
    \/ \E body \in Bodies : CallGetFreeBodyMobilizerOrThrow(body)
    \/ \E op \in {"EvalBodyPoseInWorld", "EvalBodySpatialVelocityInWorld"},
          body \in Bodies :
           CallEvalBodyInWorld(op, body)
    \/ CallCalcGravityGeneralizedForces
    \/ \E user_to_joint_index_map \in JointLists :
           CallMakeStateSelectorMatrix(user_to_joint_index_map)
    \/ \E user_to_joint_index_map \in JointLists :
           CallMakeActuatorSelectorMatrix(user_to_joint_index_map)
    \/ ReleaseBuffers

Spec == Init /\ [][Next]_vars

----------------------------------------------------------------------------
(* Properties.                                                             *)

Nodes == 0..(get_num_body_nodes(topology_) - 1)

NonWorldNodes == Nodes \ {world_index}

Level(n) == topology_.body_nodes[n].level

Parent(n) == topology_.body_nodes[n].parent_body_node

Children(n) == {c \in NonWorldNodes : Parent(c) = n}

\* The positions of the trace at which a per-node computation was invoked
\* for a node.
EventIndices(op, n) == {i \in 1..Len(trace) : trace[i] = Event(op, n)}

OpIndices(op) == {i \in 1..Len(trace) : trace[i].op = op}

Returned(op) ==
    last_call.op = op /\ last_call.thrown = "none" /\ status = "ok"

\* C1: in the buffer-filling CalcInverseDynamics the force accumulation is
\* invoked for the world node as the last step, after every other node, and
\* the world's entry of the spatial force output is the total force of the
\* bodies connected to the world.
C1_WorldIsTerminalAccumulator ==
    Returned("CalcInverseDynamics") =>
        /\ trace /= <<>>
        /\ trace[Len(trace)] = Event("F", world_index)
        /\ \A n \in NonWorldNodes :
               \E i \in EventIndices("F", n) : i < Len(trace)
        /\ F_BMo_W_array[world_index] =
               SumOver(F_BMo_W_array, Children(world_index))
               - (IF Size(last_call.args.Fapplied) = 0 THEN 0
                  ELSE last_call.args.Fapplied[world_index])

\* C2: after finalization the level-0 sequence of the level partition holds
\* exactly the world node.
C2_LevelZeroIsWorld ==
    topology_is_valid => body_node_levels_[0] = <<world_index>>

\* A base-to-tip sweep: the per-node computation op runs exactly once for
\* every non-world node, never for the world, after the node's parent, and
\* no node of a level runs before a node of a lower level.
BaseToTipOnce(op) ==
    /\ \A n \in NonWorldNodes : Cardinality(EventIndices(op, n)) = 1
    /\ EventIndices(op, world_index) = {}
    /\ \A n \in NonWorldNodes :
           Parent(n) /= world_index =>
               \A i \in EventIndices(op, n) :
                   \E j \in EventIndices(op, Parent(n)) : j < i
    /\ \A i \in OpIndices(op), j \in OpIndices(op) :
           Level(trace[i].node) < Level(trace[j].node) => i < j

\* C3: each base-to-tip sweep (position, velocity, acceleration) invokes the
\* per-node propagation exactly once for every non-world node, for a node
\* only after its parent, and level by level.
C3_BaseToTipSweeps ==
    /\ Returned("CalcPositionKinematicsCache") => BaseToTipOnce("X")
    /\ Returned("CalcVelocityKinematicsCache") => BaseToTipOnce("V")
    /\ Returned("CalcSpatialAccelerationsFromVdot") => BaseToTipOnce("A")
    /\ Returned("CalcAccelerationKinematicsCache") => BaseToTipOnce("A")

\* A position sweep has run on a tree with a node whose parent is not the
\* world, and has moved that node's pose.
C3_Witness ==
    /\ Returned("CalcPositionKinematicsCache")
    /\ tree_height = 3
    /\ \E n \in NonWorldNodes :
           /\ Parent(n) /= world_index
           /\ pc.pool[n] /= last_call.args.pre[n]


\* C4: in CalcVelocityKinematicsCache the Jacobian block of every non-world
\* node is computed before velocity propagation is invoked for any node, and
\* the velocity of a node is computed with the node's own block: the columns
\* of H_PB_W at the node's velocity slice.
C4_JacobianBeforeVelocity ==
    Returned("CalcVelocityKinematicsCache") =>
        /\ \A n \in NonWorldNodes :
               /\ EventIndices("H", n) /= {}
               /\ \A i \in EventIndices("H", n), j \in OpIndices("V") : i < j
        /\ \A n \in NonWorldNodes :
               vc.pool[n] =
                   vc.pool[Parent(n)]
                   + SumOver([k \in VelocitySlice(topology_.body_nodes[n]) |->
                                 H_PB_W_column(topology_.body_nodes[n], k,
                                               pc.pool) * context.v[k]],
                             VelocitySlice(topology_.body_nodes[n]))

\* A velocity sweep has run over a chain of two moving nodes with non-zero
\* generalized velocities.
C4_Witness ==
    /\ Returned("CalcVelocityKinematicsCache")
    /\ tree_height = 3
    /\ \A n \in NonWorldNodes :
           /\ topology_.body_nodes[n].num_velocities > 0
           /\ vc.pool[n] /= vc.pool[Parent(n)]

\* C5: in the buffer-filling CalcInverseDynamics the spatial acceleration of
\* every node is written before force accumulation is invoked for any node,
\* and force accumulation is invoked exactly once for every non-world node,
\* for a node only after all of its children.
C5_AccelerationsThenTipToBase ==
    Returned("CalcInverseDynamics") =>
        /\ EventIndices("Azero", world_index) /= {}
        /\ \A i \in EventIndices("Azero", world_index), j \in OpIndices("F") :
               i < j
        /\ \A n \in NonWorldNodes :
               /\ EventIndices("A", n) /= {}
               /\ \A i \in EventIndices("A", n), j \in OpIndices("F") : i < j
        /\ \A n \in NonWorldNodes :
               /\ Cardinality(EventIndices("F", n)) = 1
               /\ \A c \in Children(n) :
                      \A i \in EventIndices("F", n) :
                          \E j \in EventIndices("F", c) : j < i

\* Inverse dynamics has run on a chain: a non-world node has a child.
C5_Witness ==
    /\ Returned("CalcInverseDynamics")
    /\ \E n \in NonWorldNodes : Children(n) /= {}
    /\ \E n \in NonWorldNodes : A_WB_array[n] /= 0

\* C6: after CalcSpatialAccelerationsFromVdot, CalcAccelerationKinematicsCache
\* and CalcInverseDynamics return, the world's entry of the spatial
\* acceleration array is zero, whatever the array held before.
C6_WorldAccelerationZero ==
    (\/ Returned("CalcSpatialAccelerationsFromVdot")
     \/ Returned("CalcAccelerationKinematicsCache")
     \/ Returned("CalcInverseDynamics"))
        => A_WB_array[world_index] = 0

\* The acceleration sweep has run on an array whose world entry was not
\* zero, with non-zero accelerations and velocities.
C6_Witness ==
    /\ Returned("CalcSpatialAccelerationsFromVdot")
    /\ last_call.args.pre[world_index] /= 0
    /\ \E k \in DOMAIN context.v :
           context.v[k] /= 0 /\ last_call.args.known_vdot[k] /= 0
    /\ \E n \in NonWorldNodes : A_WB_array[n] /= 0

\* C7: the position sweep and the velocity sweep never invoke propagation on
\* the world node, and leave the world's cache entry as it was before the
\* call.
C7_WorldEntryUntouched ==
    /\ Returned("CalcPositionKinematicsCache") =>
           /\ EventIndices("X", world_index) = {}
           /\ pc.pool[world_index] = last_call.args.pre[world_index]
    /\ Returned("CalcVelocityKinematicsCache") =>
           /\ EventIndices("V", world_index) = {}
           /\ vc.pool[world_index] = last_call.args.pre[world_index]

\* The velocity sweep has run and has changed the entry of a non-world node.
C7_Witness ==
    /\ Returned("CalcVelocityKinematicsCache")
    /\ \E n \in NonWorldNodes : vc.pool[n] /= last_call.args.pre[n]

\* The outputs of the buffer-filling CalcInverseDynamics for given applied
\* arrays that are not the output arrays, on output arrays holding stale
\* values.
SeparateArraysResult(known_vdot, Fapplied, tau_applied, g) ==
    CalcInverseDynamics(
        pc.pool, vc.pool, known_vdot, Fapplied, tau_applied, FALSE,
        StaleArray(g, num_bodies), StaleArray(g + 1, num_bodies),
        StaleArray(g + 2, num_velocities))

\* C8: CalcInverseDynamics called with the applied arrays being the output
\* arrays gives the outputs of a call with separate input and output arrays.
C8_AliasedEqualsSeparate ==
    (Returned("CalcInverseDynamics") /\ last_call.args.aliased) =>
        \A g \in Stale :
            LET r == SeparateArraysResult(
                         last_call.args.known_vdot, last_call.args.Fapplied,
                         last_call.args.tau_applied, g)
            IN /\ A_WB_array = r.A
               /\ F_BMo_W_array = r.F
               /\ tau_array = r.tau

\* The part of C8 that the code does satisfy: every output entry other than
\* the world's spatial force equals that of the call with separate arrays.
AliasedEqualsSeparateButWorldForce ==
    (Returned("CalcInverseDynamics") /\ last_call.args.aliased) =>
        \A g \in Stale :
            LET r == SeparateArraysResult(
                         last_call.args.known_vdot, last_call.args.Fapplied,
                         last_call.args.tau_applied, g)
            IN /\ A_WB_array = r.A
               /\ \A n \in NonWorldNodes : F_BMo_W_array[n] = r.F[n]
               /\ tau_array = r.tau


\* The generalized forces of one probe run alone: inverse dynamics for the
\* j-th unit acceleration, zero velocities and no applied forces, on buffers
\* that no earlier probe has used.
SingleProbe(j, g) ==
    CalcInverseDynamics(
        pc.pool, Zero(num_bodies), Unit(num_velocities, j),
        EmptyArray, EmptyArray, FALSE,
        StaleArray(g, num_bodies), StaleArray(g + 1, num_bodies),
        Zero(num_velocities)).tau

RECURSIVE Reversed(_)
Reversed(seq) ==
    IF seq = <<>> THEN <<>> ELSE Append(Reversed(Tail(seq)), Head(seq))

\* Orders to run the probes in: descending, and ascending from the second
\* column on with the first column last.
OtherProbeOrders ==
    {Reversed(MassMatrixProbeOrder)}
    \cup (IF num_velocities = 0 THEN {}
          ELSE {Append(Tail(MassMatrixProbeOrder),
                       Head(MassMatrixProbeOrder))})

\* C9: column j of the mass matrix is the generalized force of the probe
\* with the j-th unit acceleration and depends only on the configuration and
\* on j: it is what the probe gives on unused buffers, whatever they hold,
\* and the probes in another order give the same columns.
C9_ProbeOrderIndependence ==
    Returned("CalcMassMatrixViaInverseDynamics") =>
        /\ \A j \in 0..(num_velocities - 1), g \in Stale :
               H[j] = SingleProbe(j, g)
        /\ \A order \in OtherProbeOrders, g \in Stale :
               MassMatrixProbes(order, 1, pc.pool,
                                MassMatrixStart(StaleMatrix(g), g)).H = H

\* A mass matrix has been computed for a chain of two moving nodes, with
\* columns that differ.
C9_Witness ==
    /\ Returned("CalcMassMatrixViaInverseDynamics")
    /\ tree_height = 3
    /\ num_velocities >= 2
    /\ H[0] /= H[1]
    /\ H[1][0] /= 0

\* C10: the buffer-filling CalcInverseDynamics with an empty applied spatial
\* force array (an empty applied generalized force vector) gives the outputs
\* of the same call with a full-size array of zeros of that kind, and an
\* applied array of any other size is rejected before anything is written.
C10_EmptyMeansZero ==
    (last_call.op = "CalcInverseDynamics" /\ ~last_call.args.aliased) =>
        LET a == last_call.args
            Fapplied_size == Size(a.Fapplied)
            tau_applied_size == Size(a.tau_applied)
            With(Fapplied, tau_applied) ==
                CalcInverseDynamics(
                    pc.pool, vc.pool, a.known_vdot, Fapplied, tau_applied,
                    FALSE, a.pre.A, a.pre.F, a.pre.tau)
            Same(r) ==
                /\ r.ok
                /\ A_WB_array = r.A
                /\ F_BMo_W_array = r.F
                /\ tau_array = r.tau
        IN /\ (Fapplied_size \notin {0, num_bodies}
               \/ tau_applied_size \notin {0, num_velocities}) =>
                  /\ status = "aborted"
                  /\ trace = <<>>
                  /\ A_WB_array = a.pre.A
                  /\ F_BMo_W_array = a.pre.F
                  /\ tau_array = a.pre.tau
           /\ (Returned("CalcInverseDynamics") /\ Fapplied_size = 0) =>
                  Same(With(Zero(num_bodies), a.tau_applied))
           /\ (Returned("CalcInverseDynamics") /\ tau_applied_size = 0) =>
                  Same(With(a.Fapplied, Zero(num_velocities)))

\* Inverse dynamics has run with no applied spatial forces and with applied
\* generalized forces, on a tree with a moving body, and has written forces.
C10_Witness ==
    /\ Returned("CalcInverseDynamics")
    /\ ~last_call.args.aliased
    /\ Size(last_call.args.Fapplied) = 0
    /\ Size(last_call.args.tau_applied) > 0
    /\ tree_height = 3
    /\ \E n \in NonWorldNodes : F_BMo_W_array[n] /= 0


\* The orderings of the elements of a sequence.
Orderings(seq) ==
    {p \in [1..Len(seq) -> {seq[i] : i \in 1..Len(seq)}] :
        \A i, j \in 1..Len(seq) : p[i] = p[j] => i = j}

\* The sweep orders that visit the given depths one after the other, with
\* the nodes of each depth in any order.
RECURSIVE LevelwiseOrders(_)
LevelwiseOrders(depths) ==
    IF depths = <<>> THEN {<<>>}
    ELSE {first \o rest :
              first \in Orderings(body_node_levels_[Head(depths)]),
              rest \in LevelwiseOrders(Tail(depths))}

BaseToTipOrders == LevelwiseOrders(NodesAscending(1, tree_height))

TipToBaseOrders(lowest) ==
    LevelwiseOrders(Reversed(NodesAscending(lowest, tree_height)))

C13_FinalizeTwiceThrows ==
    [][(topology_is_valid
        /\ last_call'.op \in {"Finalize", "FinalizeTopology"}) =>
           /\ last_call'.thrown = "logic_error"
           /\ status' = "ok"
           /\ UNCHANGED <<tree_vars, context, pc, vc, buffer_vars>>]_vars

\* Finalize() has thrown on a finalized tree that has a joint and a body
\* without one.
C13_Witness ==
    /\ last_call.op = "Finalize"
    /\ last_call.thrown = "logic_error"
    /\ topology_is_valid
    /\ Len(owned_joints_) >= 1
    /\ Len(owned_mobilizers_) > Len(owned_joints_)

\* The last operation has failed: the process was stopped, or the call
\* threw.
Rejected == status /= "ok" \/ last_call.thrown /= "none"

\* A vector handed in as an output that is not null and not of the size n.
WrongSize(vector, n) == vector /= NullPtr /\ Size(vector) /= n

\* The last operation is one that checks the size of its outputs, and was
\* handed an output of a size other than the one of the model.
WrongSizeOutputChecked ==
    \/ /\ last_call.op \in {"CalcSpatialAccelerationsFromVdot",
                            "CalcAccelerationKinematicsCache"}
       /\ WrongSize(last_call.args.pre, num_bodies)
    \/ /\ last_call.op = "CalcInverseDynamics"
       /\ ~last_call.args.aliased
       /\ \/ WrongSize(last_call.args.pre.A, num_bodies)
          \/ WrongSize(last_call.args.pre.F, num_bodies)
          \/ WrongSize(last_call.args.pre.tau, num_velocities)
    \/ /\ last_call.op = "CalcMassMatrixViaInverseDynamics"
       /\ ~MassMatrixSizesOk(last_call.args.pre)
    \/ /\ last_call.op = "CalcBiasTerm"
       /\ WrongSize(last_call.args.pre, num_velocities)
    \/ /\ last_call.op = "CalcPointsPositions"
       /\ last_call.args.pre /= NullMatrix
       /\ \/ Rows(last_call.args.pre) /= 3
          \/ Cols(last_call.args.pre) /= Cols(last_call.args.p_BQi)
    \/ /\ last_call.op = "CalcFrameJacobianExpressedInWorld"
       /\ \/ /\ last_call.args.pre.Jw /= NullMatrix
             /\ \/ Rows(last_call.args.pre.Jw) /= 3
                \/ Cols(last_call.args.pre.Jw) /= num_velocities
          \/ /\ last_call.args.pre.Jv /= NullMatrix
             /\ \/ Rows(last_call.args.pre.Jv)
                       /= 3 * Cols(last_call.args.p_WQ_list)
                \/ Cols(last_call.args.pre.Jv) /= num_velocities

\* The last operation is CalcAllBodyPosesInWorld() or
\* CalcAllBodySpatialVelocitiesInWorld(), handed a vector of a size other
\* than num_bodies().
WrongSizeOutputResized ==
    /\ last_call.op \in {"CalcAllBodyPosesInWorld",
                         "CalcAllBodySpatialVelocitiesInWorld"}
    /\ WrongSize(last_call.args.pre, num_bodies)

\* C14 as stated: an output buffer of a mismatched size is fatal in every
\* operation, the two CalcAllBody...InWorld operations included.
C14_WrongSizeIsFatalEverywhere ==
    (WrongSizeOutputChecked \/ WrongSizeOutputResized) => Rejected

\* C14: an output buffer of a mismatched size is fatal in the operations
\* that check it (the acceleration operations, the buffer-filling
\* CalcInverseDynamics, CalcMassMatrixViaInverseDynamics, CalcBiasTerm,
\* CalcPointsPositions, CalcFrameJacobianExpressedInWorld), whereas CalcAllBodyPosesInWorld and CalcAllBodySpatialVelocitiesInWorld
\* return normally with the vector resized to num_bodies() and filled, by
\* body, from the cache.
C14_WrongSizeIsFatalOrResized ==
    /\ WrongSizeOutputChecked => Rejected
    /\ WrongSizeOutputResized =>
           LET pool == IF last_call.op = "CalcAllBodyPosesInWorld"
                       THEN pc.pool ELSE vc.pool
               vector == IF last_call.op = "CalcAllBodyPosesInWorld"
                         THEN outputs.X_WB ELSE outputs.V_WB
           IN /\ ~Rejected
              /\ Size(vector) = num_bodies
              /\ \A body_index \in Bodies :
                     vector[body_index] = pool[node_index(body_index)]

\* CalcAllBodyPosesInWorld has returned on a tree with a moved body, handed
\* a vector of too many entries.
C14_Witness ==
    /\ Returned("CalcAllBodyPosesInWorld")
    /\ Size(last_call.args.pre) > num_bodies
    /\ num_bodies > 1
    /\ \E body_index \in Bodies : outputs.X_WB[body_index] /= 0

\* The last operation was handed a null pointer: one of the three output
\* pointers of the buffer-filling CalcInverseDynamics, or the context of
\* SetFreeBodyPoseOrThrow / SetFreeBodySpatialVelocityOrThrow on a finalized
\* tree.
NullPointerPassed ==
    \/ /\ last_call.op = "CalcInverseDynamics"
       /\ NullPtr \in {last_call.args.pre.A, last_call.args.pre.F,
                       last_call.args.pre.tau}
    \/ /\ last_call.op \in {"SetFreeBodyPoseOrThrow",
                            "SetFreeBodySpatialVelocityOrThrow"}
       /\ topology_is_valid
       /\ last_call.args.context_null

\* The last operation was stopped by a check of its arguments: a
\* DRAKE_DEMAND stopped the process, or a DRAKE_THROW_UNLESS threw.
StoppedByCheck ==
    \/ status = "aborted" /\ last_call.thrown = "none"
    \/ status = "ok" /\ last_call.thrown = "DRAKE_THROW_UNLESS"

\* C15: a null output pointer (the three output pointers of the
\* buffer-filling CalcInverseDynamics, the context pointer of
\* SetFreeBodyPoseOrThrow / SetFreeBodySpatialVelocityOrThrow) is detected
\* by an explicit check before it is used: the call is stopped by that
\* check.
C15_NullIsCheckedBeforeUse == NullPointerPassed => StoppedByCheck

\* The two pointers of CalcInverseDynamics that are compared with nullptr:
\* a null A_WB_array or F_BMo_W_array stops the process with nothing
\* written.
NullAccelerationsOrForcesAreChecked ==
    (/\ last_call.op = "CalcInverseDynamics"
     /\ NullPtr \in {last_call.args.pre.A, last_call.args.pre.F}) =>
        /\ status = "aborted"
        /\ trace = <<>>

\* The operations of the model that take a context and cast it: the two
\* accessors of the state vector and the sweeps.
ContextOperations ==
    {"get_multibody_state_vector", "get_mutable_multibody_state_vector",
     "CalcPositionKinematicsCache", "CalcVelocityKinematicsCache",
     "CalcSpatialAccelerationsFromVdot", "CalcAccelerationKinematicsCache",
     "CalcInverseDynamics", "CalcArticulatedBodyInertiaCache"}

\* The last operation was handed a context that is not the context of a
\* multibody tree, and no check of another argument stopped the process.
IncompatibleContextPassed ==
    /\ last_call.op \in ContextOperations
    /\ last_call.args.context_kind = "LeafContext"
    /\ status = "ok"

\* C16: a context that is not a multibody-tree context, handed to an
\* accessor of the state vector or to a sweep, gives a catchable failure
\* whose message says the context is not compatible with a multibody model.
C16_IncompatibleContextIsDescribed ==
    IncompatibleContextPassed =>
        /\ last_call.thrown /= "none"
        /\ last_call.what = NotCompatibleMessage

\* What the code does with such a context: every operation throws and
\* leaves the caches and the outputs as they were, but only
\* get_mutable_multibody_state_vector throws the std::runtime_error with
\* the message; the others throw the std::bad_cast of the cast.
IncompatibleContextThrows ==
    IncompatibleContextPassed =>
        /\ trace = <<>>
        /\ IF last_call.op = "get_mutable_multibody_state_vector"
           THEN /\ last_call.thrown = "runtime_error"
                /\ last_call.what = NotCompatibleMessage
           ELSE /\ last_call.thrown = "bad_cast"
                /\ last_call.what /= NotCompatibleMessage

\* The last operation set the pose or the spatial velocity of a body, on a
\* finalized tree and with a context.
SetFreeBodyCalled ==
    /\ last_call.op \in {"SetFreeBodyPoseOrThrow",
                         "SetFreeBodySpatialVelocityOrThrow"}
    /\ topology_is_valid
    /\ ~last_call.args.context_null

\* The inboard mobilizer of a body that is not the world.
InboardMobilizerType(body) ==
    owned_mobilizers_[InboardMobilizer(owned_mobilizers_, body) + 1].type

\* C17: SetFreeBodyPoseOrThrow and SetFreeBodySpatialVelocityOrThrow, on a
\* finalized tree and for a body other than the world whose inboard
\* mobilizer is not a quaternion-floating mobilizer, throw a std::logic_error
\* whose message names the body, and leave the state as it was.
C17_NotFreeBodyThrows ==
    (/\ SetFreeBodyCalled
     /\ last_call.args.body /= world_index
     /\ InboardMobilizerType(last_call.args.body) /= "free") =>
        /\ status = "ok"
        /\ last_call.thrown = "logic_error"
        /\ last_call.what = "Body '" \o BodyName(last_call.args.body)
                                \o "' is not a free floating body."
        /\ context = last_call.args.pre

\* A pose was to be set for a body on a revolute joint, in a tree that has
\* positions and a free body as well.
C17_Witness ==
    /\ SetFreeBodyCalled
    /\ last_call.op = "SetFreeBodyPoseOrThrow"
    /\ last_call.args.body /= world_index
    /\ InboardMobilizerType(last_call.args.body) = "revolute"
    /\ \E body \in Bodies \ {world_index} :
           InboardMobilizerType(body) = "free"
    /\ last_call.thrown = "logic_error"

\* C20: the points CalcPointsPositions has expressed in frame A, taken from
\* frame A back to frame B by a second call, are the points it was given in
\* frame B; and the transform CalcRelativeTransform(A, B) has returned,
\* composed with CalcRelativeTransform(B, A), is the identity.
C20_FrameRoundTrip ==
    /\ Returned("CalcPointsPositions") =>
           LET a == last_call.args
               back == CalcPointsPositions(
                           pc.pool, a.frame_A, outputs.p_AQi, a.frame_B,
                           a.pre)
           IN /\ back.thrown = "none"
              /\ back.p_AQi = a.p_BQi
    /\ Returned("CalcRelativeTransform") =>
           LET a == last_call.args
               X_BA == CalcRelativeTransform(pc.pool, a.frame_B, a.frame_A)
           IN /\ Compose(outputs.X_AB, X_BA) = Identity
              /\ Compose(X_BA, outputs.X_AB) = Identity

\* Points were taken between frames of two different bodies, one of them
\* moved away from the world origin and one frame reflecting, and their
\* coordinates changed.
C20_Witness ==
    /\ Returned("CalcPointsPositions")
    /\ last_call.args.frame_A.body /= last_call.args.frame_B.body
    /\ last_call.args.frame_A.X_BF /= Identity
    /\ pc.pool[node_index(last_call.args.frame_B.body)] /= 0
    /\ \A j \in DOMAIN outputs.p_AQi.col :
           outputs.p_AQi.col[j] /= last_call.args.p_BQi.col[j]

\* The nodes from a node up to the world, the world left out.
RECURSIVE AncestorsOrSelf(_)
AncestorsOrSelf(n) ==
    IF n = world_index THEN {} ELSE {n} \cup AncestorsOrSelf(Parent(n))

\* The columns of the velocity slices of a set of nodes.
ColumnsOf(nodes) ==
    UNION {VelocitySlice(topology_.body_nodes[n]) : n \in nodes}

\* Every entry of a column of a matrix is zero.
ZeroColumn(J, j) == \A i \in DOMAIN J.col[j] : J.col[j][i] = 0

\* C19: after CalcFrameJacobianExpressedInWorld every column of an output
\* Jacobian that belongs to a node off the kinematic path from the frame's
\* body up to (excluding) the world is zero, whatever the matrix held
\* before; the columns of the nodes on the path hold the node's block (for
\* the angular Jacobian, its H_PB_W); for a frame of the world body both
\* Jacobians are entirely zero.
C19_JacobianOnlyOnPath ==
    Returned("CalcFrameJacobianExpressedInWorld") =>
        LET body == last_call.args.frame_F.body
            on_path == ColumnsOf(AncestorsOrSelf(node_index(body)))
            Given == {J \in {outputs.Jw, outputs.Jv} : J /= NullMatrix}
        IN /\ \A J \in Given : \A j \in DOMAIN J.col :
                  j \notin on_path => ZeroColumn(J, j)
           /\ body = world_index =>
                  \A J \in Given : \A j \in DOMAIN J.col : ZeroColumn(J, j)
           /\ outputs.Jw /= NullMatrix =>
                  \A n \in AncestorsOrSelf(node_index(body)) :
                      \A j \in VelocitySlice(topology_.body_nodes[n]) :
                          outputs.Jw.col[j][0] =
                              H_PB_W_column(topology_.body_nodes[n], j,
                                            pc.pool)

\* Both Jacobians were computed for a frame of a body below the world, in a
\* tree with a moving node off the frame's path: the outputs, which held
\* other values, have zero columns and non-zero columns.
C19_Witness ==
    /\ Returned("CalcFrameJacobianExpressedInWorld")
    /\ last_call.args.frame_F.body /= world_index
    /\ outputs.Jw /= NullMatrix
    /\ outputs.Jv /= NullMatrix
    /\ \E j \in DOMAIN outputs.Jw.col :
           /\ ZeroColumn(outputs.Jw, j)
           /\ ~ZeroColumn(last_call.args.pre.Jw, j)
    /\ \E j \in DOMAIN outputs.Jw.col : ~ZeroColumn(outputs.Jw, j)

\* Every caller-owned output of the last operation holds what it held
\* before the call, and no node was computed.
OutputsAsBefore ==
    /\ trace = <<>>
    /\ CASE last_call.op = "CalcInverseDynamics" ->
               /\ A_WB_array = last_call.args.pre.A
               /\ F_BMo_W_array = last_call.args.pre.F
               /\ tau_array = last_call.args.pre.tau
         [] last_call.op \in {"CalcSpatialAccelerationsFromVdot",
                              "CalcAccelerationKinematicsCache"} ->
               A_WB_array = last_call.args.pre
         [] last_call.op = "CalcPointsPositions" ->
               outputs.p_AQi = last_call.args.pre
         [] last_call.op = "CalcFrameJacobianExpressedInWorld" ->
               /\ outputs.Jw = last_call.args.pre.Jw
               /\ outputs.Jv = last_call.args.pre.Jv

\* C18: when a size or null check of CalcInverseDynamics,
\* CalcSpatialAccelerationsFromVdot, CalcPointsPositions or
\* CalcFrameJacobianExpressedInWorld fails, the operation has written no
\* output: every output buffer holds what it held before the call.
C18_FailedCheckWritesNothing ==
    (/\ last_call.op \in {"CalcInverseDynamics",
                          "CalcSpatialAccelerationsFromVdot",
                          "CalcAccelerationKinematicsCache",
                          "CalcPointsPositions",
                          "CalcFrameJacobianExpressedInWorld"}
     /\ StoppedByCheck) => OutputsAsBefore

\* CalcFrameJacobianExpressedInWorld has thrown on a translational Jacobian
\* of a wrong size, handed together with an angular Jacobian of the right
\* size that held non-zero values, in a tree with velocities.
C18_Witness ==
    /\ last_call.op = "CalcFrameJacobianExpressedInWorld"
    /\ last_call.thrown = "DRAKE_THROW_UNLESS"
    /\ num_velocities > 0
    /\ Rows(last_call.args.pre.Jw) = 3
    /\ Cols(last_call.args.pre.Jw) = num_velocities
    /\ ~ZeroColumn(last_call.args.pre.Jw, 0)
    /\ last_call.args.pre.Jv /= NullMatrix

\* The last operation was the buffer-filling CalcInverseDynamics with zero
\* generalized accelerations and no applied forces, on arrays of its own.
InverseDynamicsAtRest ==
    /\ Returned("CalcInverseDynamics")
    /\ ~last_call.args.aliased
    /\ last_call.args.known_vdot = Zero(num_velocities)
    /\ Size(last_call.args.Fapplied) = 0
    /\ Size(last_call.args.tau_applied) = 0

\* C21: with all generalized velocities zero, the bias term CalcBiasTerm
\* computes is the zero vector, and so is the generalized-force vector of
\* inverse dynamics with zero generalized accelerations and no applied
\* forces.
C21_ZeroVelocityBiasVanishes ==
    context.v = Zero(num_velocities) =>
        /\ Returned("CalcBiasTerm") => outputs.Cv = Zero(num_velocities)
        /\ InverseDynamicsAtRest => tau_array = Zero(num_velocities)

\* The bias term was computed for a free body moved away from the origin
\* and at rest, into a vector that held other values.
C21_Witness ==
    /\ Returned("CalcBiasTerm")
    /\ num_velocities > 0
    /\ context.v = Zero(num_velocities)
    /\ context.q /= Zero(num_positions)
    /\ \E body \in Bodies \ {world_index} :
           InboardMobilizerType(body) = "free"
    /\ \A k \in DOMAIN outputs.Cv : last_call.args.pre[k] /= 0

\* How many times a value occurs in a sequence.
Occurrences(seq, x) == Cardinality({i \in 1..Len(seq) : seq[i] = x})

\* C22: on a finalized tree every non-world node has a parent of a smaller
\* node index; the BodyNode stored at position i has node index i; and every
\* non-world node is registered as a child exactly once, with its parent.
C22_ParentBeforeChild ==
    topology_is_valid =>
        /\ DOMAIN body_nodes_ = Nodes
        /\ \A n \in NonWorldNodes : Parent(n) \in Nodes /\ Parent(n) < n
        /\ \A i \in Nodes :
               /\ body_nodes_[i].index = i
               /\ body_nodes_[i].parent = Parent(i)
        /\ \A n \in NonWorldNodes : \A p \in Nodes :
               Occurrences(body_nodes_[p].children, n)
                   = IF p = Parent(n) THEN 1 ELSE 0
        /\ \A p \in Nodes :
               Occurrences(body_nodes_[p].children, world_index) = 0

\* A finalized tree in which a body hangs from a body that was added after
\* it: the order of the nodes is not the order of the bodies.
C22_Witness ==
    /\ topology_is_valid
    /\ \E n \in NonWorldNodes :
           /\ Parent(n) /= world_index
           /\ topology_.body_nodes[n].body
                  < topology_.body_nodes[Parent(n)].body


\* C23: on a finalized tree every non-world node index appears exactly once
\* over the sequences of the level partition, in the sequence of the node's
\* topology level; every sequence is ascending; and what the sweeps assert
\* of a node taken from the sequence of a level holds: its topology level is
\* that level and its BodyNode's index is the index it was taken with.
C23_LevelPartition ==
    topology_is_valid =>
        /\ DOMAIN body_node_levels_ = 0..(tree_height - 1)
        /\ \A n \in NonWorldNodes : \A l \in DOMAIN body_node_levels_ :
               Occurrences(body_node_levels_[l], n)
                   = IF l = Level(n) THEN 1 ELSE 0
        /\ \A l \in DOMAIN body_node_levels_ :
               \A i, j \in 1..Len(body_node_levels_[l]) :
                   i < j => body_node_levels_[l][i] < body_node_levels_[l][j]
        /\ \A l \in DOMAIN body_node_levels_ :
               \A i \in 1..Len(body_node_levels_[l]) :
                   LET body_node_index == body_node_levels_[l][i]
                   IN /\ body_node_index \in Nodes
                      /\ topology_.body_nodes[body_node_index].level = l
                      /\ body_nodes_[body_node_index].index = body_node_index

\* The position sweep has run over a finalized tree that has two nodes in
\* one level.
C23_Witness ==
    /\ topology_is_valid
    /\ Returned("CalcPositionKinematicsCache")
    /\ \E l \in DOMAIN body_node_levels_ : Len(body_node_levels_[l]) >= 2


\* C24: in CalcArticulatedBodyInertiaCache the across-node Jacobian of every
\* non-world node is computed before any composition step; the composition
\* is invoked exactly once for every non-world node, never for the world,
\* and for a node only after all of its children.
C24_JacobiansThenTipToBase ==
    Returned("CalcArticulatedBodyInertiaCache") =>
        /\ \A n \in NonWorldNodes :
               /\ EventIndices("H", n) /= {}
               /\ \A i \in EventIndices("H", n), j \in OpIndices("P") : i < j
        /\ \A n \in NonWorldNodes :
               /\ Cardinality(EventIndices("P", n)) = 1
               /\ \A c \in Children(n) :
                      \A i \in EventIndices("P", n) :
                          \E j \in EventIndices("P", c) : j < i
        /\ EventIndices("P", world_index) = {}

\* The articulated-body recursion has run on a chain: a non-world node has
\* a child, and the composition ran for both.
C24_Witness ==
    /\ Returned("CalcArticulatedBodyInertiaCache")
    /\ \E n \in NonWorldNodes :
           /\ Children(n) /= {}
           /\ EventIndices("P", n) /= {}
           /\ \A c \in Children(n) : EventIndices("P", c) /= {}


\* The nodes for which the force accumulation ran and whose velocity slice
\* holds entry k of the generalized forces.
WritersOf(k) ==
    {n \in Nodes : /\ k \in VelocitySlice(topology_.body_nodes[n])
                   /\ EventIndices("F", n) /= {}}

\* C25: in the buffer-filling CalcInverseDynamics, called with output arrays
\* that are not the applied arrays, every entry of the generalized-force
\* output is written by exactly one node, the one whose velocity slice holds
\* it, and in one invocation; so the vector returned is the same whatever
\* the output held before, and so is the vector CalcBiasTerm returns.
C25_TauFullyWritten ==
    /\ (Returned("CalcInverseDynamics") /\ ~last_call.args.aliased) =>
           /\ DOMAIN tau_array = 0..(num_velocities - 1)
           /\ \A k \in DOMAIN tau_array :
                  /\ Cardinality(WritersOf(k)) = 1
                  /\ \A n \in WritersOf(k) :
                         Cardinality(EventIndices("F", n)) = 1
           /\ \A g \in Stale :
                  CalcInverseDynamics(
                      pc.pool, vc.pool, last_call.args.known_vdot,
                      last_call.args.Fapplied, last_call.args.tau_applied,
                      FALSE, last_call.args.pre.A, last_call.args.pre.F,
                      StaleArray(g + 5, num_velocities)).tau = tau_array
    /\ Returned("CalcBiasTerm") =>
           \A g \in Stale :
               CalcBiasTerm(pc.pool, vc.pool,
                            StaleArray(g + 5, num_velocities), g).Cv
                   = outputs.Cv

\* Inverse dynamics has returned generalized forces that differ, in every
\* entry, from what the output vector held, on a tree whose velocities are
\* spread over two nodes.
C25_Witness ==
    /\ Returned("CalcInverseDynamics")
    /\ ~last_call.args.aliased
    /\ num_velocities >= 2
    /\ \A k \in DOMAIN tau_array : tau_array[k] /= last_call.args.pre.tau[k]
    /\ \E k, m \in DOMAIN tau_array : WritersOf(k) /= WritersOf(m)


\* The mobilizers of the tree whose outboard body is the given body.
InboardMobilizersOf(body) ==
    {i \in 1..Len(owned_mobilizers_) : owned_mobilizers_[i].outboard = body}

\* The joints of the tree whose child body is the given body.
JointsInto(body) ==
    {j \in 1..Len(owned_joints_) : owned_joints_[j].child = body}

\* C26: after Finalize() every body but the world has one inboard mobilizer
\* and the world has none; the child of a joint has the mobilizer that
\* implements the joint and no floating mobilizer; a body that is the child
\* of no joint has a quaternion-floating mobilizer from the world, in the
\* body's model instance.
C26_EveryBodyHasOneMobilizer ==
    topology_is_valid =>
        /\ InboardMobilizersOf(world_index) = {}
        /\ \A body \in 1..(num_bodies_ - 1) :
               /\ Cardinality(InboardMobilizersOf(body)) = 1
               /\ \A i \in InboardMobilizersOf(body) :
                      IF JointsInto(body) /= {}
                      THEN /\ owned_mobilizers_[i].type /= "free"
                           /\ \E j \in JointsInto(body) :
                                  owned_mobilizers_[i]
                                      = JointMobilizer(owned_joints_[j])
                      ELSE owned_mobilizers_[i]
                               = [inboard |-> world_index, outboard |-> body,
                                  type |-> "free",
                                  model_instance |-> BodyModelInstance(body)]
        /\ \A i \in 1..Len(owned_mobilizers_) :
               owned_mobilizers_[i].outboard \in 1..(num_bodies_ - 1)

\* A finalized tree with a body that is the child of a joint and a body that
\* is the child of none.
C26_Witness ==
    /\ topology_is_valid
    /\ \E body \in 1..(num_bodies_ - 1) : JointsInto(body) /= {}
    /\ \E body \in 1..(num_bodies_ - 1) : JointsInto(body) = {}


\* The operations that start with DRAKE_MBT_THROW_IF_NOT_FINALIZED().
GuardedOperations ==
    {"GetFreeBodyMobilizerOrThrow", "SetFreeBodyPoseOrThrow",
     "SetFreeBodySpatialVelocityOrThrow", "EvalBodyPoseInWorld",
     "EvalBodySpatialVelocityInWorld", "CalcGravityGeneralizedForces",
     "MakeStateSelectorMatrix", "MakeActuatorSelectorMatrix"}

\* C27: each of the operations guarded by the check that the tree is
\* finalized, called on a tree that is not, throws a std::logic_error whose
\* message names the operation called, and leaves the tree, the context,
\* the caches and the caller's buffers as they were.
C27_PreFinalizeCallsThrow ==
    [][(~topology_is_valid /\ last_call'.op \in GuardedOperations) =>
           /\ last_call'.thrown = "logic_error"
           /\ last_call'.what =
                  "Pre-finalize calls to '" \o last_call'.op
                      \o "()' are not allowed; you must call Finalize() first."
           /\ UNCHANGED <<tree_vars, context, pc, vc, buffer_vars, status>>]_vars

\* A selector matrix was asked of a tree with a joint before Finalize().
C27_Witness ==
    /\ ~topology_is_valid
    /\ Len(owned_joints_) > 0
    /\ last_call.op = "MakeStateSelectorMatrix"
    /\ last_call.thrown = "logic_error"
    /\ last_call.args.user_to_joint_index_map /= <<>>


\* The columns of the state x = [q; v] that a list of joints selects: the
\* positions of the joints in the order of the list, then the velocities of
\* the joints in the order of the list.
RECURSIVE SelectedColumns(_, _, _)
SelectedColumns(joints, i, velocities) ==
    IF i > Len(joints) THEN <<>>
    ELSE LET joint == JointSlices(joints[i])
         IN (IF velocities
             THEN [k \in 1..joint.num_velocities |->
                      num_positions + joint.velocity_start + k - 1]
             ELSE [k \in 1..joint.num_positions |->
                      joint.position_start + k - 1])
            \o SelectedColumns(joints, i + 1, velocities)

\* A list of joints names a joint more than once.
HasRepeatedJoint(joints) ==
    \E i, k \in 1..Len(joints) : i /= k /\ joints[i] = joints[k]

\* MakeStateSelectorMatrix was called on a finalized tree.
StateSelectorCalled ==
    /\ topology_is_valid
    /\ last_call.op = "MakeStateSelectorMatrix"

\* C28: MakeStateSelectorMatrix on a finalized tree throws a
\* std::logic_error that names the joint for a list with a repeated joint;
\* for a list of distinct joints it returns a matrix of zeros and ones with
\* one 1 in every row and at most one 1 in every column, whose product with
\* the state is the positions of the selected joints in the order of the
\* list followed by their velocities in the order of the list.
C28_StateSelectorMatrix ==
    StateSelectorCalled =>
        LET joints == last_call.args.user_to_joint_index_map
            columns == SelectedColumns(joints, 1, FALSE)
                           \o SelectedColumns(joints, 1, TRUE)
            Sx == outputs.Sx
            x == [c \in 0..(num_positions + num_velocities - 1) |-> c + 1]
        IN IF HasRepeatedJoint(joints)
           THEN /\ last_call.thrown = "logic_error"
                /\ \E i, k \in 1..Len(joints) :
                       /\ i /= k
                       /\ joints[i] = joints[k]
                       /\ last_call.what =
                              "Joint named '" \o JointName(joints[i])
                                  \o "' is repeated multiple times."
                /\ outputs = NoOutputs
           ELSE /\ last_call.thrown = "none"
                /\ Sx.rows = Len(columns)
                /\ Sx.cols = num_positions + num_velocities
                /\ DOMAIN Sx.coeff = 0..(Sx.rows - 1)
                /\ \A r \in DOMAIN Sx.coeff :
                       /\ DOMAIN Sx.coeff[r] = 0..(Sx.cols - 1)
                       /\ \A c \in DOMAIN Sx.coeff[r] :
                              Sx.coeff[r][c] \in {0, 1}
                       /\ Cardinality({c \in DOMAIN Sx.coeff[r] :
                                          Sx.coeff[r][c] = 1}) = 1
                       /\ SumOver([c \in DOMAIN x |-> Sx.coeff[r][c] * x[c]],
                                  DOMAIN x) = x[columns[r + 1]]
                /\ \A c \in 0..(Sx.cols - 1) :
                       Cardinality({r \in DOMAIN Sx.coeff :
                                       Sx.coeff[r][c] = 1}) <= 1

\* The matrix was returned for two joints with a position and a velocity
\* each, listed in the reverse of the order of the state.
C28_Witness ==
    /\ StateSelectorCalled
    /\ last_call.thrown = "none"
    /\ Len(last_call.args.user_to_joint_index_map) = 2
    /\ outputs.Sx.rows = 4
    /\ LET joints == last_call.args.user_to_joint_index_map
       IN JointSlices(joints[1]).position_start
              > JointSlices(joints[2]).position_start
====
